---- MODULE Spec2Model ----
(***************************************************************************)
(* Verification model of the UMRS SELinux userland core:                   *)
(*   - the dual-path (TPI) security-context parser and the xattr reader    *)
(*     (umrs-selinux/src/xattrs.rs, context.rs, utils/mod.rs),             *)
(*   - the range-form Translator and its loader (mcs-setrans/src/lib.rs),  *)
(*   - the bitmask-indexed TranslationTable (umrs-selinux/src/mcs/         *)
(*     setrans.rs).                                                        *)
(* Text is modelled as sequences of one-character strings, so that every  *)
(* split, trim and numeric parse is computed as the code computes it.     *)
(***************************************************************************)
EXTENDS Integers, Sequences, FiniteSets, TLC

\* ------------------------------------------------------------------------
\* Result / Option encodings
\* ------------------------------------------------------------------------
\* Result<T, E>: Ok(v) or Err(kind).  Option<T>: a sequence of length 0 or 1.
Ok(v) == [ok |-> TRUE, val |-> <<v>>, err |-> "none"]
Err(k) == [ok |-> FALSE, val |-> <<>>, err |-> k]
Unwrap(r) == r.val[1]
None == <<>>
Some(v) == <<v>>

\* ------------------------------------------------------------------------
\* Character classes
\* ------------------------------------------------------------------------
Digits == {"0", "1", "2", "3", "4", "5", "6", "7", "8", "9"}
LowerChars ==
    {"a", "b", "c", "d", "e", "f", "g", "h", "i", "j", "k", "l", "m",
     "n", "o", "p", "q", "r", "s", "t", "u", "v", "w", "x", "y", "z"}
\* char::is_whitespace for the characters the model uses
WhiteChars == {" ", "\t", "\n"}
\* pseudo-characters: a NUL byte and a byte that is not valid UTF-8
NUL == "NUL"
BadByte == "xFF"

DigitVal(ch) ==
    CASE ch = "0" -> 0 [] ch = "1" -> 1 [] ch = "2" -> 2 [] ch = "3" -> 3
      [] ch = "4" -> 4 [] ch = "5" -> 5 [] ch = "6" -> 6 [] ch = "7" -> 7
      [] ch = "8" -> 8 [] ch = "9" -> 9

\* ------------------------------------------------------------------------
\* str primitives (Rust std)
\* ------------------------------------------------------------------------
Contains(s, ch) == \E i \in 1..Len(s) : s[i] = ch

\* index of the first occurrence of ch in s, 0 if there is none
IndexOf(s, ch) ==
    IF Contains(s, ch)
    THEN CHOOSE i \in 1..Len(s) : s[i] = ch /\ \A j \in 1..(i - 1) : s[j] # ch
    ELSE 0

StartsWith(s, ch) == Len(s) > 0 /\ s[1] = ch

EndsWith(s, suf) ==
    /\ Len(s) >= Len(suf)
    /\ SubSeq(s, Len(s) - Len(suf) + 1, Len(s)) = suf

\* str::strip_prefix(ch): Option
StripPrefix(s, ch) == IF StartsWith(s, ch) THEN Some(Tail(s)) ELSE None

\* str::split_once(ch): Option<(before, after)>, split at the first ch
SplitOnce(s, ch) ==
    LET At(i) == IF i = 0 THEN None
                 ELSE Some(<<SubSeq(s, 1, i - 1), SubSeq(s, i + 1, Len(s))>>)
    IN At(IndexOf(s, ch))

\* str::split(ch).collect(): always at least one field
RECURSIVE Split(_, _)
Split(s, ch) ==
    LET At(i) ==
          IF i = 0 THEN <<s>>
          ELSE <<SubSeq(s, 1, i - 1)>> \o Split(SubSeq(s, i + 1, Len(s)), ch)
    IN At(IndexOf(s, ch))

RECURSIVE TrimStart(_)
TrimStart(s) ==
    IF Len(s) > 0 /\ s[1] \in WhiteChars THEN TrimStart(Tail(s)) ELSE s

RECURSIVE TrimEnd(_)
TrimEnd(s) ==
    IF Len(s) > 0 /\ s[Len(s)] \in WhiteChars
    THEN TrimEnd(SubSeq(s, 1, Len(s) - 1)) ELSE s

\* str::trim
Trim(s) == TrimEnd(TrimStart(s))

\* str::trim_start_matches(ch): removes every leading ch
RECURSIVE TrimStartMatches(_, _)
TrimStartMatches(s, ch) ==
    IF StartsWith(s, ch) THEN TrimStartMatches(Tail(s), ch) ELSE s

\* std::str::from_utf8 succeeds iff no byte is invalid
IsUtf8(s) == ~Contains(s, BadByte)

U16_MAX == 65535
\* The model's ceiling for u32 parses: no token of the model has a value
\* near it, TLC integers being 32-bit signed.
U32Cap == 100000000

RECURSIVE DigitsValue(_, _, _)
\* value of a digit string, saturating just above max
DigitsValue(s, acc, max) ==
    IF Len(s) = 0 THEN acc
    ELSE IF acc > max THEN acc
    ELSE DigitsValue(Tail(s), acc * 10 + DigitVal(s[1]), max)

\* str::parse::<uN>(): optional leading '+', then one or more decimal
\* digits, value at most max.  Option<value>.
ParseUInt(s, max) ==
    LET Value(v) == IF v > max THEN None ELSE Some(v)
        Body(body) ==
          IF Len(body) = 0 \/ \E i \in 1..Len(body) : body[i] \notin Digits
          THEN None
          ELSE Value(DigitsValue(body, 0, max))
    IN Body(IF StartsWith(s, "+") THEN Tail(s) ELSE s)

RECURSIVE Join(_, _)
\* fields joined by a separator character
Join(fields, sep) ==
    IF Len(fields) = 0 THEN <<>>
    ELSE IF Len(fields) = 1 THEN fields[1]
    ELSE fields[1] \o <<sep>> \o Join(Tail(fields), sep)

\* ------------------------------------------------------------------------
\* Program constants
\* ------------------------------------------------------------------------
MAX_CATEGORY == 1023
MAX_SENSITIVITY == 15
MAX_USER_LEN == 255
MIN_USER_LEN == 3
MAX_ROLE_LEN == 255
MIN_ROLE_LEN == 3
MAX_TYPE_LEN == 255
MIN_TYPE_LEN == 3

\* ------------------------------------------------------------------------
\* Identifier primitives (user.rs, role.rs, type_id.rs)
\* ------------------------------------------------------------------------
IdentChar(ch) == ch \in LowerChars \/ ch \in Digits \/ ch = "_"

validate_user(value) ==
    IF Len(value) = 0 THEN Err("Empty")
    ELSE IF Len(value) > MAX_USER_LEN THEN Err("TooLong")
    ELSE IF Len(value) < MIN_USER_LEN THEN Err("InvalidStem")
    ELSE IF \E i \in 1..Len(value) : ~IdentChar(value[i])
         THEN Err("InvalidCharacter")
    ELSE IF ~EndsWith(value, <<"_", "u">>) THEN Err("InvalidSuffix")
    ELSE IF Len(value) - 2 = 0 THEN Err("InvalidStem")
    ELSE Ok(value)

validate_role(value) ==
    IF Len(value) = 0 THEN Err("Empty")
    ELSE IF Len(value) > MAX_ROLE_LEN THEN Err("TooLong")
    ELSE IF Len(value) < MIN_ROLE_LEN THEN Err("InvalidStem")
    ELSE IF \E i \in 1..Len(value) : ~IdentChar(value[i])
         THEN Err("InvalidCharacter")
    ELSE IF ~EndsWith(value, <<"_", "r">>) THEN Err("InvalidSuffix")
    ELSE IF Len(value) - 2 = 0 THEN Err("InvalidStem")
    ELSE Ok(value)

validate_type(value) ==
    IF Len(value) = 0 THEN Err("Empty")
    ELSE IF Len(value) > MAX_TYPE_LEN THEN Err("TooLong")
    ELSE IF Len(value) < MIN_TYPE_LEN THEN Err("InvalidStem")
    ELSE IF \E i \in 1..Len(value) : ~IdentChar(value[i])
         THEN Err("InvalidCharacter")
    ELSE IF ~EndsWith(value, <<"_", "t">>) THEN Err("InvalidSuffix")
    ELSE IF Len(value) - 2 = 0 THEN Err("InvalidStem")
    ELSE Ok(value)

\* ------------------------------------------------------------------------
\* SensitivityLevel (sensitivity.rs)
\* ------------------------------------------------------------------------
SensitivityLevel_new(level) ==
    IF level > MAX_SENSITIVITY THEN Err("OutOfRange") ELSE Ok(level)

SensitivityLevel_from_str(s) ==
    LET Numeric(value) == IF value = None THEN Err("InvalidFormat")
                          ELSE SensitivityLevel_new(value[1])
    IN IF Len(s) = 0 THEN Err("Empty")
       ELSE IF ~StartsWith(s, "s") THEN Err("InvalidPrefix")
       ELSE Numeric(ParseUInt(Tail(s), U16_MAX))

\* the sensitivity both context paths continue with: the parsed one, or
\* SensitivityLevel::new(0).unwrap() when the parse failed
SensOrZero(parsed) ==
    IF parsed.ok THEN Unwrap(parsed) ELSE Unwrap(SensitivityLevel_new(0))

\* ------------------------------------------------------------------------
\* Category (category.rs) and the xattrs.rs category-list parser.
\* A CategorySet is modelled by the set of the ids whose bit is set.
\* ------------------------------------------------------------------------
\* a constructor without the ceiling
Category_new_Unchecked(id) == Ok(id)

\* Category::new
Category_new(id) ==
    IF id > MAX_CATEGORY THEN Err("OutOfRange") ELSE Ok(id)

\* impl FromStr for Category
Category_from_str(s) ==
    LET Id(id) == IF id = None THEN Err("InvalidFormat")
                  ELSE Category_new(id[1])
    IN IF ~StartsWith(s, "c") THEN Err("InvalidFormat")
       ELSE Id(ParseUInt(Tail(s), U16_MAX))

parse_cat_id(s) ==
    LET Num(v) == IF v = None THEN Err("InvalidData") ELSE Ok(v[1])
        Stripped(n) == IF n = None THEN Err("InvalidData")
                       ELSE Num(ParseUInt(n[1], U16_MAX))
    IN Stripped(StripPrefix(s, "c"))

\* one comma-separated part: the ids it inserts, or the error it raises
McsPart(part) ==
    LET Bounds(start, end) ==
          IF ~start.ok THEN Err("InvalidData")
          ELSE IF ~end.ok THEN Err("InvalidData")
          ELSE IF \E i \in Unwrap(start)..Unwrap(end) : ~Category_new(i).ok
               THEN Err("InvalidData")
          ELSE Ok(Unwrap(start)..Unwrap(end))
        Range(range) ==
          IF Len(range) = 2
          THEN Bounds(parse_cat_id(range[1]), parse_cat_id(range[2]))
          ELSE Ok({})
        Single(id) ==
          IF ~id.ok THEN Err("InvalidData")
          ELSE IF ~Category_new(Unwrap(id)).ok THEN Err("InvalidData")
          ELSE Ok({Unwrap(id)})
    IN IF Contains(part, ".") THEN Range(Split(part, "."))
       ELSE Single(parse_cat_id(part))

RECURSIVE McsParts(_, _)
\* the loop over the parts: the first failing part ends the parse
McsParts(parts, set) ==
    LET Step(r) == IF ~r.ok THEN r
                   ELSE McsParts(Tail(parts), set \cup Unwrap(r))
    IN IF Len(parts) = 0 THEN Ok(set) ELSE Step(McsPart(parts[1]))

parse_mcs_categories(input) ==
    IF ~Contains(input, "c") THEN Ok({})
    ELSE McsParts(Split(input, ","), {})

RECURSIVE CategorySetParts(_, _)
\* the loop of CategorySet::from_str: each part is trimmed and parsed as
\* one Category
CategorySetParts(parts, set) ==
    LET Step(cat) == IF ~cat.ok THEN cat
                     ELSE CategorySetParts(Tail(parts), set \cup {Unwrap(cat)})
    IN IF Len(parts) = 0 THEN Ok(set)
       ELSE Step(Category_from_str(Trim(parts[1])))

\* impl FromStr for CategorySet
CategorySet_from_str(s) == CategorySetParts(Split(s, ","), {})

\* ------------------------------------------------------------------------
\* SecurityContext (context.rs)
\* ------------------------------------------------------------------------
\* a level that forgets the string it was parsed from
MlsLevel_NoRaw(sens, cats, raw_level) ==
    [sensitivity |-> sens, categories |-> cats, raw_level |-> <<>>]

\* MlsLevel { sensitivity, categories, raw_level }
MlsLevel(sens, cats, raw_level) ==
    [sensitivity |-> sens, categories |-> cats, raw_level |-> raw_level]

SecurityContext_new(user, role, security_type, level) ==
    [user |-> user, role |-> role, security_type |-> security_type,
     level |-> level]

\* the level Path B builds from the fourth field: a failed sensitivity
\* parse becomes 0, a failed category parse the empty set
PathBLevel(level_raw) ==
    LET Build(parsed, pc) ==
          MlsLevel(SensOrZero(parsed),
                   IF pc.ok THEN Unwrap(pc) ELSE {},
                   level_raw)
    IN Build(SensitivityLevel_from_str(level_raw),
             parse_mcs_categories(level_raw))

\* a Path B that insists on the level field
SecurityContext_from_str_LevelRequired(s) ==
    LET Parts(parts) ==
          IF Len(parts) # 4 THEN Err("InvalidFormat")
          ELSE IF ~validate_user(parts[1]).ok THEN Err("InvalidUser")
          ELSE IF ~validate_role(parts[2]).ok THEN Err("InvalidRole")
          ELSE IF ~validate_type(parts[3]).ok THEN Err("InvalidType")
          ELSE Ok(SecurityContext_new(parts[1], parts[2], parts[3],
                    Some(PathBLevel(parts[4]))))
    IN Parts(Split(s, ":"))

\* a Path B that maps the role before the user
SecurityContext_from_str_RoleFirst(s) ==
    LET Parts(parts) ==
          IF Len(parts) < 3 \/ Len(parts) > 4 THEN Err("InvalidFormat")
          ELSE IF ~validate_role(parts[2]).ok THEN Err("InvalidRole")
          ELSE IF ~validate_user(parts[1]).ok THEN Err("InvalidUser")
          ELSE IF ~validate_type(parts[3]).ok THEN Err("InvalidType")
          ELSE Ok(SecurityContext_new(parts[1], parts[2], parts[3],
                    IF Len(parts) = 4 THEN Some(PathBLevel(parts[4]))
                    ELSE None))
    IN Parts(Split(s, ":"))

\* Path B: impl FromStr for SecurityContext
SecurityContext_from_str(s) ==
    LET Parts(parts) ==
          IF Len(parts) < 3 \/ Len(parts) > 4 THEN Err("InvalidFormat")
          ELSE IF ~validate_user(parts[1]).ok THEN Err("InvalidUser")
          ELSE IF ~validate_role(parts[2]).ok THEN Err("InvalidRole")
          ELSE IF ~validate_type(parts[3]).ok THEN Err("InvalidType")
          ELSE Ok(SecurityContext_new(parts[1], parts[2], parts[3],
                    IF Len(parts) = 4 THEN Some(PathBLevel(parts[4]))
                    ELSE None))
    IN Parts(Split(s, ":"))

\* MlsLevel::raw, and Display for MlsLevel, which writes the raw level
MlsLevel_raw(level) == level.raw_level

\* a Display that leaves the level out
SecurityContext_Display_NoLevel(ctx) ==
    ctx.user \o <<":">> \o ctx.role \o <<":">> \o ctx.security_type

\* impl Display for SecurityContext
SecurityContext_Display(ctx) ==
    IF ctx.level # None
    THEN ctx.user \o <<":">> \o ctx.role \o <<":">> \o ctx.security_type
            \o <<":">> \o MlsLevel_raw(ctx.level[1])
    ELSE ctx.user \o <<":">> \o ctx.role \o <<":">> \o ctx.security_type

\* ------------------------------------------------------------------------
\* Path A: parse_context_nom (xattrs.rs)
\* ------------------------------------------------------------------------
\* nom take_until(":"): Ok(<<remaining, taken>>), the remaining input
\* starting at the colon; Err when the input has no colon
take_until(input, ch) ==
    LET At(i) ==
          IF i = 0 THEN Err("Error")
          ELSE Ok(<<SubSeq(input, i, Len(input)), SubSeq(input, 1, i - 1)>>)
    IN At(IndexOf(input, ch))

\* nom tag(":"): Ok(remaining) when the input starts with the tag
tag(input, ch) ==
    IF StartsWith(input, ch) THEN Ok(Tail(input)) ELSE Err("Error")

\* step 4 of parse_context_nom, with the outcome of step 3: the category
\* error of step 3 is raised first, then user, role and type are mapped
NomStrongTypes(user_raw, role_raw, type_raw, remaining, parsed, cats) ==
    IF Len(remaining) # 0 /\ ~cats.ok THEN Err("Failure")
    ELSE IF ~validate_user(user_raw).ok THEN Err("Failure")
    ELSE IF ~validate_role(role_raw).ok THEN Err("Failure")
    ELSE IF ~validate_type(type_raw).ok THEN Err("Failure")
    ELSE Ok(SecurityContext_new(user_raw, role_raw, type_raw,
              IF Len(remaining) # 0
              THEN Some(MlsLevel(SensOrZero(parsed), Unwrap(cats), remaining))
              ELSE None))

\* step 3 of parse_context_nom: sensitivity and categories of the level
NomLevel(user_raw, role_raw, type_raw, remaining_after_type) ==
    LET Parsed(sens_raw, cats_str) ==
          NomStrongTypes(user_raw, role_raw, type_raw, remaining_after_type,
                         SensitivityLevel_from_str(sens_raw),
                         IF Len(cats_str) # 0
                         THEN parse_mcs_categories(cats_str)
                         ELSE Ok({}))
        Halves(so) ==
          IF so = None THEN Parsed(remaining_after_type, <<>>)
          ELSE Parsed(so[1][1], so[1][2])
    IN Halves(SplitOnce(remaining_after_type, ":"))

\* step 2 of parse_context_nom: the type, and what follows its colon
NomTypeAndLevel(user_raw, role_raw, input) ==
    LET AfterColon(rem, sp) == IF sp = None THEN rem ELSE sp[1]
        Rest(rem) == AfterColon(rem, StripPrefix(rem, ":"))
        Typed(t) ==
          IF t.ok
          THEN NomLevel(user_raw, role_raw, Unwrap(t)[2], Rest(Unwrap(t)[1]))
          ELSE NomLevel(user_raw, role_raw, input, <<>>)
    IN Typed(take_until(input, ":"))

parse_context_nom(input) ==
    LET Role(user_raw, r) ==
          IF ~r.ok THEN Err("Error")
          ELSE NomTypeAndLevel(user_raw, Unwrap(r)[2],
                               Unwrap(tag(Unwrap(r)[1], ":")))
        User(u) ==
          IF ~u.ok THEN Err("Error")
          ELSE Role(Unwrap(u)[2],
                    take_until(Unwrap(tag(Unwrap(u)[1], ":")), ":"))
    IN User(take_until(input, ":"))

\* ------------------------------------------------------------------------
\* CategorySet as the code stores it (category.rs): sixteen 64-bit words,
\* a word being the set of the positions of its 1 bits, so that & is
\* intersection, | is union and 1 << bit is {bit}
\* ------------------------------------------------------------------------
WORDS == 16
WORD_BITS == 64

CategorySet_new == [i \in 0..(WORDS - 1) |-> {}]

\* CategorySet::index: the word of a category and its mask
CategorySet_index(id) ==
    [word |-> id \div WORD_BITS, mask |-> {id % WORD_BITS}]

CategorySet_insert(bits, id) ==
    [bits EXCEPT ![CategorySet_index(id).word] =
                    @ \cup CategorySet_index(id).mask]

CategorySet_contains(bits, id) ==
    (bits[CategorySet_index(id).word] \cap CategorySet_index(id).mask) # {}

\* a dominance test that stops after the first word
CategorySet_dominates_FirstWord(self, other) ==
    \A i \in 0..0 : (self[i] \cap other[i]) = other[i]

CategorySet_dominates(self, other) ==
    \A i \in 0..(WORDS - 1) : (self[i] \cap other[i]) = other[i]

\* a union that keeps only the words of self
CategorySet_union_SelfOnly(self, other) ==
    [i \in 0..(WORDS - 1) |-> self[i]]

CategorySet_union(self, other) ==
    [i \in 0..(WORDS - 1) |-> self[i] \cup other[i]]

CategorySet_intersection(self, other) ==
    [i \in 0..(WORDS - 1) |-> self[i] \cap other[i]]

\* CategorySet::iter: the ids 0..=MAX_CATEGORY the set contains
CategorySet_iter(bits) ==
    {id \in 0..MAX_CATEGORY : CategorySet_contains(bits, id)}

RECURSIVE InsertAll(_, _)
\* the words after inserting every id of a set of valid ids, which is how
\* the parsers build a CategorySet
InsertAll(bits, ids) ==
    IF ids = {} THEN bits
    ELSE LET Pick(id) == InsertAll(CategorySet_insert(bits, id), ids \ {id})
         IN Pick(CHOOSE id \in ids : TRUE)

\* the words of the CategorySet that holds exactly the ids
BitsOf(ids) == InsertAll(CategorySet_new, ids)

\* ------------------------------------------------------------------------
\* Range-form translator (mcs-setrans/src/lib.rs)
\* ------------------------------------------------------------------------
SecurityLevel(sens, cats) == [sensitivity |-> sens, categories |-> cats]

SecurityRange(low, high) == [low |-> low, high |-> high]

\* one comma-separated part of the category section of a level: the ids it
\* inserts, or the error it raises.  The style auditor between the
\* uppercase check and the parse only logs.
LevelPart(rawPart) ==
    LET Bounds(start, end) ==
          IF start = None THEN Err("Bad start")
          ELSE IF end = None THEN Err("Bad end")
          ELSE IF \E i \in start[1]..end[1] :
                     i > U16_MAX \/ ~Category_new(i).ok
               THEN Err("Category")
          ELSE Ok(start[1]..end[1])
        Single(c) == IF c.ok THEN Ok({Unwrap(c)}) ELSE Err("Category")
        Parse(part, so) ==
          IF Contains(part, "C") THEN Err("UppercaseC")
          ELSE IF so # None
          THEN Bounds(ParseUInt(TrimStartMatches(so[1][1], "c"), U32Cap),
                      ParseUInt(TrimStartMatches(so[1][2], "c"), U32Cap))
          ELSE IF Len(part) # 0 THEN Single(Category_from_str(part))
          ELSE Ok({})
        Trimmed(part) == Parse(part, SplitOnce(part, "."))
    IN Trimmed(Trim(rawPart))

RECURSIVE LevelParts(_, _)
\* a loop that keeps only the categories of the part it handled last
LevelParts_KeepLast(parts, categories) ==
    LET Step(r) == IF ~r.ok THEN r
                   ELSE LevelParts(Tail(parts), Unwrap(r))
    IN IF Len(parts) = 0 THEN Ok(categories) ELSE Step(LevelPart(parts[1]))

\* the loop over the parts of the category section
LevelParts(parts, categories) ==
    LET Step(r) == IF ~r.ok THEN r
                   ELSE LevelParts(Tail(parts), categories \cup Unwrap(r))
    IN IF Len(parts) = 0 THEN Ok(categories) ELSE Step(LevelPart(parts[1]))

\* impl FromStr for SecurityLevel
SecurityLevel_from_str(str) ==
    LET Build(sensitivity, cats) ==
          IF ~cats.ok THEN cats
          ELSE Ok(SecurityLevel(sensitivity[1], Unwrap(cats)))
        Sens(sens_part, so, sensitivity) ==
          IF StartsWith(sens_part, "S") THEN Err("UppercaseS")
          ELSE IF ~StartsWith(sens_part, "s") THEN Err("BadPrefix")
          ELSE IF sensitivity = None THEN Err("InvalidSensitivity")
          ELSE Build(sensitivity,
                     IF so = None THEN Ok({})
                     ELSE LevelParts(Split(so[1][2], ","), {}))
        Halves(sens_part, so) ==
          Sens(sens_part, so,
               ParseUInt(TrimStartMatches(sens_part, "s"), U32Cap))
        Trimmed(s, so) == Halves(IF so = None THEN s ELSE so[1][1], so)
        Whole(s) == Trimmed(s, SplitOnce(s, ":"))
    IN Whole(Trim(str))

\* a range parser that takes both bounds from the text before the '-'
SecurityRange_from_str_LowOnly(str) ==
    LET One(level) ==
          IF ~level.ok THEN level
          ELSE Ok(SecurityRange(Unwrap(level), Unwrap(level)))
        Halves(s, so) ==
          IF so # None THEN One(SecurityLevel_from_str(so[1][1]))
          ELSE One(SecurityLevel_from_str(s))
        Whole(s) == Halves(s, SplitOnce(s, "-"))
    IN Whole(Trim(str))

\* impl FromStr for SecurityRange
SecurityRange_from_str(str) ==
    LET Two(low, high) ==
          IF ~low.ok THEN low
          ELSE IF ~high.ok THEN high
          ELSE Ok(SecurityRange(Unwrap(low), Unwrap(high)))
        One(level) ==
          IF ~level.ok THEN level
          ELSE Ok(SecurityRange(Unwrap(level), Unwrap(level)))
        Halves(s, so) ==
          IF so # None
          THEN Two(SecurityLevel_from_str(so[1][1]),
                   SecurityLevel_from_str(so[1][2]))
          ELSE One(SecurityLevel_from_str(s))
        Whole(s) == Halves(s, SplitOnce(s, "-"))
    IN Whole(Trim(str))

\* a level dominance that looks at the categories only
SecurityLevel_dominates_NoSens(self, other) ==
    \A cat \in CategorySet_iter(BitsOf(other.categories)) :
       CategorySet_contains(BitsOf(self.categories), cat)

\* SecurityLevel::dominates: the sensitivity, then the loop over the
\* categories of other
SecurityLevel_dominates(self, other) ==
    IF self.sensitivity < other.sensitivity THEN FALSE
    ELSE \A cat \in CategorySet_iter(BitsOf(other.categories)) :
            CategorySet_contains(BitsOf(self.categories), cat)

\* SecurityRange::can_read
can_read(self, file_range) == SecurityLevel_dominates(self.low, file_range.low)

\* BTreeMap::insert: the key's value is replaced when the key is present
MapInsert(m, k, v) ==
    [x \in DOMAIN m \cup {k} |-> IF x = k THEN v ELSE m[x]]

EmptyMap == [x \in {} |-> <<>>]

\* Translator::new and the initial value of GLOBAL_TRANSLATOR
Translator_new == [rules |-> EmptyMap, details |-> EmptyMap]

add_rule(t, range, label, detail) ==
    [rules |-> MapInsert(t.rules, range, label),
     details |-> IF Len(detail) # 0
                 THEN MapInsert(t.details, range, detail)
                 ELSE t.details]

lookup(t, range) ==
    IF range \in DOMAIN t.rules THEN Some(t.rules[range]) ELSE None

get_detail(t, range) ==
    IF range \in DOMAIN t.details THEN t.details[range] ELSE <<>>

\* the label and the detail of a rule line, from the text after '='
LabelAndComment(rest) ==
    LET Halves(so) ==
          IF so # None THEN <<Trim(so[1][1]), Trim(so[1][2])>>
          ELSE <<Trim(rest), <<>> >>
    IN Halves(SplitOnce(rest, "#"))

\* a filter that keeps every rule
ReadableEntry_Always(t, proc_ctx, range) ==
    <<<<range, t.rules[range], get_detail(t, range)>>>>

\* the filter and the map of list_readable_markings for one rule: the
\* entry the rule contributes, if any
ReadableEntry(t, proc_ctx, range) ==
    IF can_read(proc_ctx, range)
    THEN <<<<range, t.rules[range], get_detail(t, range)>>>>
    ELSE <<>>

RECURSIVE ReadableFrom(_, _, _)
\* the iteration over the rules; the properties stated of the result do
\* not depend on the order in which the map yields its keys
ReadableFrom(t, proc_ctx, keys) ==
    IF keys = {} THEN <<>>
    ELSE LET Take(k) == ReadableEntry(t, proc_ctx, k)
                           \o ReadableFrom(t, proc_ctx, keys \ {k})
         IN Take(CHOOSE k \in keys : TRUE)

list_readable_markings(t, proc_ctx) ==
    ReadableFrom(t, proc_ctx, DOMAIN t.rules)

RECURSIVE DecimalOf(_)
\* Display of an unsigned integer: its decimal digits
DecimalOf(n) ==
    LET Digit(d) == CHOOSE ch \in Digits : DigitVal(ch) = d
    IN IF n < 10 THEN <<Digit(n)>>
       ELSE DecimalOf(n \div 10) \o <<Digit(n % 10)>>

RECURSIVE CategoriesFrom(_, _)
\* the loop of Display for CategorySet over iter(), which yields the
\* categories by ascending id: "c<id>" for each, "," between two
CategoriesFrom(ids, first) ==
    LET Write(id) ==
          (IF first THEN <<>> ELSE <<",">>) \o <<"c">> \o DecimalOf(id)
             \o CategoriesFrom(ids \ {id}, FALSE)
    IN IF ids = {} THEN <<>>
       ELSE Write(CHOOSE id \in ids : \A other \in ids : id <= other)

\* impl Display for CategorySet
CategorySet_Display(set) == CategoriesFrom(CategorySet_iter(BitsOf(set)), TRUE)

\* "s{}:{}" of a level
LevelString(level) ==
    <<"s">> \o DecimalOf(level.sensitivity) \o <<":">>
       \o CategorySet_Display(level.categories)

\* a kernel string that writes the low level only
KernelString_LowOnly(range) == LevelString(range.low)

\* the kernel string lookup_by_marking builds for a rule's range
KernelString(range) ==
    IF range.low = range.high THEN LevelString(range.low)
    ELSE LevelString(range.low) \o <<"-">> \o LevelString(range.high)

\* the filter and the map of lookup_by_marking for one rule
MarkingEntry(t, marking, range) ==
    IF t.rules[range] = marking
    THEN <<<<KernelString(range), get_detail(t, range)>>>>
    ELSE <<>>

RECURSIVE MarkingFrom(_, _, _)
\* the iteration over the rules; the properties stated of the result do
\* not depend on the order in which the map yields its keys
MarkingFrom(t, marking, keys) ==
    IF keys = {} THEN <<>>
    ELSE LET Take(k) == MarkingEntry(t, marking, k)
                           \o MarkingFrom(t, marking, keys \ {k})
         IN Take(CHOOSE k \in keys : TRUE)

\* Translator::lookup_by_marking
lookup_by_marking(t, marking) ==
    MarkingFrom(t, Trim(marking), DOMAIN t.rules)

\* a loader body that stores every parsed rule, duplicate or not
LoadLine_Overwrite(t, rawLine) ==
    LET Rule(range, lc) ==
          IF range.ok THEN add_rule(t, Unwrap(range), lc[1], lc[2]) ELSE t
        Line(line, so) ==
          IF Len(line) = 0 \/ StartsWith(line, "#") THEN t
          ELSE IF so = None THEN t
          ELSE Rule(SecurityRange_from_str(Trim(so[1][1])),
                    LabelAndComment(so[1][2]))
        Trimmed(line) == Line(line, SplitOnce(line, "="))
    IN Trimmed(Trim(rawLine))

\* the body of the loop of load_setrans_file, for one line that was read
LoadLine(t, rawLine) ==
    LET Rule(range, lc) ==
          IF range.ok
          THEN IF Unwrap(range) \in DOMAIN t.rules THEN t
               ELSE add_rule(t, Unwrap(range), lc[1], lc[2])
          ELSE t
        Line(line, so) ==
          IF Len(line) = 0 \/ StartsWith(line, "#") THEN t
          ELSE IF so = None THEN t
          ELSE Rule(SecurityRange_from_str(Trim(so[1][1])),
                    LabelAndComment(so[1][2]))
        Trimmed(line) == Line(line, SplitOnce(line, "="))
    IN Trimmed(Trim(rawLine))

RECURSIVE LoadLines(_, _, _)
\* the loop of load_setrans_file: lines() fails on a line that is not
\* UTF-8 and the error is returned at once; done counts the lines handled
LoadLines(t, lines, done) ==
    IF Len(lines) = 0 THEN [res |-> Ok("unit"), t |-> t, done |-> done]
    ELSE IF ~IsUtf8(lines[1])
    THEN [res |-> Err("InvalidData"), t |-> t, done |-> done]
    ELSE LoadLines(LoadLine(t, lines[1]), Tail(lines), done + 1)

\* load_setrans_file on the translator behind GLOBAL_TRANSLATOR
load_setrans_file(t, file, openOk) ==
    IF ~openOk THEN [res |-> Err("NotFound"), t |-> t, done |-> 0]
    ELSE LoadLines(t, file, 0)

\* ------------------------------------------------------------------------
\* Bitmask-indexed TranslationTable (umrs-selinux/src/mcs/setrans.rs)
\* ------------------------------------------------------------------------
TranslationTable_new == [to_text |-> EmptyMap, to_bits |-> EmptyMap]

get_text(tt, set) ==
    IF set \in DOMAIN tt.to_text THEN Some(tt.to_text[set]) ELSE None

get_bits(tt, text) ==
    IF text \in DOMAIN tt.to_bits THEN Some(tt.to_bits[text]) ELSE None

\* Path A of the line ingestion: separated_pair(take_until("="), tag("="),
\* rest), both sides trimmed
parse_line_nom(input) ==
    LET Pair(l) ==
          IF ~l.ok THEN Err("Error")
          ELSE Ok(<<Trim(Unwrap(l)[2]),
                    Trim(Unwrap(tag(Unwrap(l)[1], "=")))>>)
    IN Pair(take_until(input, "="))

\* the body of the loop of load_from_reader for one line that was read:
\* the table after the line, or the error that ends the load
TableLine(tt, rawLine) ==
    LET Insert(marking, cats) ==
          IF ~cats.ok THEN Err("InvalidData")
          ELSE Ok([to_text |-> MapInsert(tt.to_text, Unwrap(cats), marking),
                   to_bits |-> MapInsert(tt.to_bits, marking, Unwrap(cats))])
        Resolve(marking, cats_str) ==
          Insert(marking, IF Len(cats_str) # 0
                          THEN parse_mcs_categories(cats_str)
                          ELSE Ok({}))
        Bitmask(marking, so) ==
          Resolve(marking, IF so = None THEN <<>> ELSE so[1][2])
        Gate(raw_mls, marking, raw_b, marking_b) ==
          IF raw_mls # raw_b \/ marking # marking_b
          THEN Err("PermissionDenied")
          ELSE Bitmask(marking, SplitOnce(raw_mls, ":"))
        Paths(a, b) ==
          IF ~a.ok THEN Err("InvalidData")
          ELSE IF b = None THEN Err("InvalidData")
          ELSE Gate(Unwrap(a)[1], Unwrap(a)[2],
                    Trim(b[1][1]), Trim(b[1][2]))
        Data(data) ==
          IF Len(data) = 0 THEN Ok(tt)
          ELSE Paths(parse_line_nom(data), SplitOnce(data, "="))
        Trimmed(trimmed) ==
          IF Len(trimmed) = 0 \/ StartsWith(trimmed, "#") THEN Ok(tt)
          ELSE Data(Trim(Split(trimmed, "#")[1]))
    IN Trimmed(Trim(rawLine))

RECURSIVE load_from_reader(_, _, _)
\* load_from_reader: the table is updated in place, so the entries of the
\* lines before a failing line stay in it; done counts the lines handled
load_from_reader(tt, lines, done) ==
    LET Step(r) ==
          IF ~r.ok THEN [res |-> r, t |-> tt, done |-> done]
          ELSE load_from_reader(Unwrap(r), Tail(lines), done + 1)
    IN IF Len(lines) = 0 THEN [res |-> Ok("unit"), t |-> tt, done |-> done]
       ELSE IF ~IsUtf8(lines[1])
       THEN [res |-> Err("InvalidData"), t |-> tt, done |-> done]
       ELSE Step(TableLine(tt, lines[1]))

\* the initialiser of TRANSLATION_MAP in get_map: the result of the load is
\* dropped and the table is kept as the load left it
get_map_init(conf, openOk) ==
    IF openOk THEN load_from_reader(TranslationTable_new, conf, 0)
    ELSE [res |-> Err("NotFound"), t |-> TranslationTable_new, done |-> 0]

\* ------------------------------------------------------------------------
\* SecureXattrReader (xattrs.rs)
\* ------------------------------------------------------------------------
\* read_raw: attr is the attribute's bytes in the kernel, sysOk whether the
\* two fgetxattr calls succeed
read_raw(attr, sysOk) ==
    IF ~sysOk THEN Err("Other")
    ELSE IF Len(attr) = 0 THEN Err("InvalidData")
    ELSE IF attr[Len(attr)] = NUL THEN Ok(SubSeq(attr, 1, Len(attr) - 1))
    ELSE Ok(attr)

\* a gate that releases Path A's context whatever Path B produced
TpiGate_Lenient(context_a, context_b) == Ok(context_a)

\* the TPI gate of read_context, on the two paths' results
TpiGate(context_a, context_b) ==
    IF context_a # context_b THEN Err("PermissionDenied")
    ELSE Ok(context_a)

read_context(attr, sysOk) ==
    LET Paths(a, b) ==
          IF ~a.ok THEN Err("InvalidData")
          ELSE IF ~b.ok THEN Err("InvalidData")
          ELSE TpiGate(Unwrap(a), Unwrap(b))
        Decode(raw_bytes) ==
          IF ~raw_bytes.ok THEN raw_bytes
          ELSE IF ~IsUtf8(Unwrap(raw_bytes)) THEN Err("InvalidData")
          ELSE Paths(parse_context_nom(Unwrap(raw_bytes)),
                     SecurityContext_from_str(Unwrap(raw_bytes)))
    IN Decode(read_raw(attr, sysOk))

\* ------------------------------------------------------------------------
\* Public retrieval functions (utils/mod.rs)
\* ------------------------------------------------------------------------
get_file_context(attr, openOk, sysOk) ==
    IF ~openOk THEN Err("NotFound") ELSE read_context(attr, sysOk)

lget_file_context(attr, openOk, sysOk) ==
    IF ~openOk THEN Err("NotFound") ELSE read_context(attr, sysOk)

fget_file_context(attr, sysOk) == read_context(attr, sysOk)

\* content is what /proc/<pid>/attr/current holds
get_pid_context(content, readOk) ==
    LET Parsed(r) == IF r.ok THEN r ELSE Err("InvalidData")
    IN IF ~readOk THEN Err("NotFound")
       ELSE IF ~IsUtf8(content) THEN Err("InvalidData")
       ELSE Parsed(SecurityContext_from_str(Trim(content)))

get_self_context(content, readOk) == get_pid_context(content, readOk)

\* ------------------------------------------------------------------------
\* Kernel attribute reader (kernel-files/src/lib.rs; the copy in
\* umrs-selinux/src/utils/good_kattrs.rs has the same engine and parsers)
\* ------------------------------------------------------------------------
SELINUX_MAGIC == "SELINUX_MAGIC"
PROC_SUPER_MAGIC == "PROC_SUPER_MAGIC"
\* the size of the read buffer of execute_read
BUF_LEN == 16

Nodes ==
    {"enforce", "mls", "policyvers", "fips_enabled", "generic_bool",
     "generic_dual_bool"}

\* StaticSource::EXPECTED_MAGIC, and the magic read_generic passes
ExpectedMagic(node) ==
    IF node = "fips_enabled" THEN PROC_SUPER_MAGIC ELSE SELINUX_MAGIC

\* a provenance check that lets every filesystem pass
ProvenanceOk_Any(fs_type, expected_magic) == TRUE

\* the provenance check of execute_read
ProvenanceOk(fs_type, expected_magic) == fs_type = expected_magic

RECURSIVE SplitWhitespace(_, _)
\* str::split_whitespace: the non-empty runs between whitespace; cur is
\* the run being collected
SplitWhitespace(s, cur) ==
    IF Len(s) = 0 THEN (IF Len(cur) = 0 THEN <<>> ELSE <<cur>>)
    ELSE IF s[1] \in WhiteChars
    THEN (IF Len(cur) = 0 THEN <<>> ELSE <<cur>>)
            \o SplitWhitespace(Tail(s), <<>>)
    ELSE SplitWhitespace(Tail(s), Append(cur, s[1]))

SelinuxEnforce_parse(data) ==
    IF StartsWith(data, "1") THEN Ok("Enforcing")
    ELSE IF StartsWith(data, "0") THEN Ok("Permissive")
    ELSE Err("InvalidData")

SelinuxMls_parse(data) ==
    IF StartsWith(data, "1") THEN Ok(TRUE)
    ELSE IF StartsWith(data, "0") THEN Ok(FALSE)
    ELSE Err("InvalidData")

SelinuxPolicyVers_parse(data) ==
    LET Num(v) == IF v = None THEN Err("InvalidData") ELSE Ok(v[1])
    IN IF ~IsUtf8(data) THEN Err("InvalidData")
       ELSE Num(ParseUInt(Trim(data), U32Cap))

ProcFips_parse(data) ==
    IF StartsWith(data, "1") THEN Ok(TRUE)
    ELSE IF StartsWith(data, "0") THEN Ok(FALSE)
    ELSE Err("InvalidData")

GenericKernelBool_parse(data) ==
    IF StartsWith(data, "1") THEN Ok(TRUE)
    ELSE IF StartsWith(data, "0") THEN Ok(FALSE)
    ELSE Err("InvalidData")

GenericDualBool_parse(data) ==
    LET Parts(parts) ==
          IF Len(parts) < 2 THEN Err("InvalidData")
          ELSE Ok([current |-> parts[1] = <<"1">>,
                   pending |-> parts[2] = <<"1">>])
    IN IF ~IsUtf8(data) THEN Err("InvalidData")
       ELSE Parts(SplitWhitespace(data, <<>>))

\* T::parse for the node's marker type
NodeParse(node, data) ==
    CASE node = "enforce" -> SelinuxEnforce_parse(data)
      [] node = "mls" -> SelinuxMls_parse(data)
      [] node = "policyvers" -> SelinuxPolicyVers_parse(data)
      [] node = "fips_enabled" -> ProcFips_parse(data)
      [] node = "generic_bool" -> GenericKernelBool_parse(data)
      [] node = "generic_dual_bool" -> GenericDualBool_parse(data)

\* ------------------------------------------------------------------------
\* Label sources the model draws from
\* ------------------------------------------------------------------------
MaxFields == 5

sys_u == <<"s", "y", "s", "_", "u">>
sys_r == <<"s", "y", "s", "_", "r">>
ssh_t == <<"s", "s", "h", "_", "t">>
SystemLow == <<"S", "y", "s", "t", "e", "m", "L", "o", "w">>

UserPool == {sys_u, <<"a", "_", "u">>, <<"_", "u">>, <<"b", " ", "u">>}
RolePool == {sys_r, <<"r", "1", "_", "r">>, sys_u}
TypePool == {ssh_t, <<"x", "_", "t">>, <<"s", "s", "h">>}
LevelPool ==
    {<<"s", "0">>, <<"s", "3">>, <<"s", "9", "9">>, <<"c", "1">>,
     <<"c", "0", ".", "c", "2", ",", "c", "5">>, SystemLow, <<>>,
     <<"c", "x">>}
TailPool == {<<>>, <<NUL>>, <<"\n">>, <<BadByte>>}

\* the colon-separated fields of a label: up to three identifiers, then
\* level fields
FieldSeqs ==
    {<<u>> : u \in UserPool}
    \cup {<<u, r>> : u \in UserPool, r \in RolePool}
    \cup {<<u, r, t>> \o ls :
            u \in UserPool, r \in RolePool, t \in TypePool,
            ls \in UNION {[1..k -> LevelPool] : k \in 0..(MaxFields - 3)}}

Labels == { Join(fs, ":") \o t : fs \in FieldSeqs, t \in TailPool } \cup {<<>>}

\* ------------------------------------------------------------------------
\* setrans files the model draws from
\* ------------------------------------------------------------------------
MaxLines == 2
MaxLoads == 2

LnA == <<"s", "0", ":", "c", "1", "=", "A">>
LnB == <<"s", "0", ":", "c", "1", " ", "=", " ", "B", " ", "#", " ", "d">>
LnC == <<"s", "0", ":", "c", "2", ",", "c", "1", "=", "C">>
LnD == <<"s", "0", ":", "c", "1", ",", "c", "2", "=", "D", "#", "e">>
LnS1 == <<"s", "1", ":", "c", "1", "=", "A">>
LnNoEq == <<"g", "a", "r", "b", "a", "g", "e">>
LnBadCat == <<"s", "0", ":", "c", "x", "=", "E">>
LnComment == <<"#", "c">>
LnNotUtf8 == <<BadByte>>

LinePool ==
    {LnA, LnB, LnC, LnD, LnS1, LnNoEq, LnBadCat, LnComment, LnNotUtf8}

Files == UNION {[1..n -> LinePool] : n \in 0..MaxLines}

\* ------------------------------------------------------------------------
\* State
\* ------------------------------------------------------------------------
VARIABLES
    label,      \* bytes of the label source: the file's security.selinux
                \* xattr, or /proc/<pid>/attr/current
    api,        \* the retrieval function that has returned, "none" before
    result,     \* what it returned
    translator, \* the Translator behind GLOBAL_TRANSLATOR
    trFile,     \* the lines of the file given to the last load_setrans_file
    trResult,   \* what the last load_setrans_file call returned
    trHistory,  \* the lines load_setrans_file has handled so far, in order
    trLoads,    \* number of load_setrans_file calls
    table,      \* a TranslationTable owned by a caller
    ttFile,     \* the lines of the reader given to the last load_from_reader
    ttResult,   \* what the last load_from_reader call returned
    ttHistory,  \* the lines load_from_reader has handled so far, in order
    ttLoads,    \* number of load_from_reader calls on the table
    TRANSLATION_MAP, \* the OnceLock: None, or Some(table)
    lkPc,       \* position of each thread that uses the two statics
    lkWriter,   \* holder of the write lock of GLOBAL_TRANSLATOR, or None
    lkReaders,  \* holders of its read lock
    lkFile,     \* the file each loader thread opened
    lkIdx,      \* the lines each loader thread has handled
    lkResult,   \* what each loader thread's load_setrans_file returned
    lkBefore,   \* the translator when the latest load took the write lock
    lkLast,     \* the file of the latest load that took the write lock
    lkObs,      \* what each reader thread saw under its read lock
    onceRunner, \* the thread running the initialiser of TRANSLATION_MAP
    gmSeen,     \* the table each get_map caller was handed
    srNode,     \* the kernel node a SecureReader is asked for
    srMount,    \* what is mounted at the node's path now: the magic of
                \* the filesystem and the bytes of the file
    srPc,       \* position of the reader inside execute_read
    srStatfs,   \* the filesystem type statfs reported, or None
    srFile,     \* the file File::open returned, or None
    srBuf,      \* the bytes file.read returned, or None
    srParsed,   \* whether T::parse has been invoked
    srResult,   \* what execute_read returned
    srRemounts, \* number of changes of the mount at the path
    csA,        \* three CategorySets, as their 16 words
    csB,
    csC,
    csOp,       \* the CategorySet operation that was applied, "none" before
    csOut,      \* what it returned
    qSubject,   \* the SecurityRange of a subject
    qObject,    \* the SecurityRange of an object
    qOp,        \* the query that was answered, "none" before
    qOut,       \* its answer
    psTokens,   \* the tokens of a category list, in the order written
    psPerm,     \* the same tokens in another order
    psOp,       \* the parser or lookup that was applied, "none" before
    psOut,      \* its results on the two lists
    slLow,      \* a level string
    slHigh,     \* the level string after the '-' of a range, or None
    slOp,       \* the level parser that was applied, "none" before
    slOut,      \* what it returned
    cpIn,       \* a context string
    cpOp,       \* the context parser that was applied, "none" before
    cpOut       \* what it returned

ctxVars == <<label, api, result>>
trVars == <<translator, trFile, trResult, trHistory, trLoads>>
ttVars == <<table, ttFile, ttResult, ttHistory, ttLoads, TRANSLATION_MAP>>
lkVars == <<lkPc, lkWriter, lkReaders, lkFile, lkIdx, lkResult, lkBefore,
            lkLast, lkObs, onceRunner, gmSeen>>
vars == <<label, api, result, translator, trFile, trResult, trHistory,
          trLoads, table, ttFile, ttResult, ttHistory, ttLoads,
          TRANSLATION_MAP, lkPc, lkWriter, lkReaders, lkFile, lkIdx,
          lkResult, lkBefore, lkLast, lkObs, onceRunner, gmSeen, srNode,
          srMount, srPc, srStatfs, srFile, srBuf, srParsed, srResult,
          srRemounts, csA, csB, csC, csOp, csOut, qSubject, qObject, qOp,
          qOut, psTokens, psPerm, psOp, psOut, slLow, slHigh, slOp, slOut,
          cpIn, cpOp, cpOut>>
psVars == <<psTokens, psPerm, psOp, psOut>>
slVars == <<slLow, slHigh, slOp, slOut>>
cpVars == <<cpIn, cpOp, cpOut>>
csVars == <<csA, csB, csC, csOp, csOut>>
qVars == <<qSubject, qObject, qOp, qOut>>
srVars == <<srNode, srMount, srPc, srStatfs, srFile, srBuf, srParsed,
            srResult, srRemounts>>

CtxIdle ==
    /\ label = <<>>
    /\ api = "none"
    /\ result = Err("none")

TrIdle ==
    /\ translator = Translator_new
    /\ trFile = <<>>
    /\ trResult = Err("none")
    /\ trHistory = <<>>
    /\ trLoads = 0

TtIdle ==
    /\ table = TranslationTable_new
    /\ ttFile = <<>>
    /\ ttResult = Err("none")
    /\ ttHistory = <<>>
    /\ ttLoads = 0
    /\ TRANSLATION_MAP = None

\* the threads of the model: two callers of load_setrans_file, two readers
\* of GLOBAL_TRANSLATOR, two callers of get_map
Loaders == {"l1", "l2"}
LkReaders == {"r1", "r2"}
GmCallers == {"g1", "g2"}
Threads == Loaders \cup LkReaders \cup GmCallers

LkIdle ==
    /\ lkPc = [t \in Threads |-> "idle"]
    /\ lkWriter = None
    /\ lkReaders = {}
    /\ lkFile = [t \in Loaders |-> <<>>]
    /\ lkIdx = [t \in Loaders |-> 0]
    /\ lkResult = [t \in Loaders |-> Err("none")]
    /\ lkBefore = Translator_new
    /\ lkLast = None
    /\ lkObs = [t \in LkReaders |-> None]
    /\ onceRunner = None
    /\ gmSeen = [t \in GmCallers |-> None]

\* the statics and threads that the sequential specifications leave alone
SrIdle ==
    /\ srNode = "enforce"
    /\ srMount = [magic |-> SELINUX_MAGIC, content |-> <<>>]
    /\ srPc = "idle"
    /\ srStatfs = None
    /\ srFile = None
    /\ srBuf = None
    /\ srParsed = FALSE
    /\ srResult = Err("none")
    /\ srRemounts = 0

CsIdle ==
    /\ csA = CategorySet_new
    /\ csB = CategorySet_new
    /\ csC = CategorySet_new
    /\ csOp = "none"
    /\ csOut = FALSE

QIdle ==
    /\ qSubject = SecurityRange(SecurityLevel(0, {}), SecurityLevel(0, {}))
    /\ qObject = SecurityRange(SecurityLevel(0, {}), SecurityLevel(0, {}))
    /\ qOp = "none"
    /\ qOut = FALSE

PsIdle ==
    /\ psTokens = <<>>
    /\ psPerm = <<>>
    /\ psOp = "none"
    /\ psOut = <<>>

SlIdle ==
    /\ slLow = <<>>
    /\ slHigh = None
    /\ slOp = "none"
    /\ slOut = <<>>

CpIdle ==
    /\ cpIn = <<>>
    /\ cpOp = "none"
    /\ cpOut = <<>>

auxVars == <<lkVars, srVars, csVars, qVars, psVars, slVars, cpVars>>
AuxIdle == LkIdle /\ SrIdle /\ CsIdle /\ QIdle /\ PsIdle /\ SlIdle /\ CpIdle

\* what the threads on the statics leave alone
lkRest == <<ctxVars, srVars, csVars, qVars, psVars,
    slVars, cpVars>>
\* what a SecureReader leaves alone
srRest == <<ctxVars, trVars, ttVars, lkVars, csVars, qVars, psVars,
    slVars, cpVars>>
\* what the CategorySet operations leave alone
csRest == <<ctxVars, trVars, ttVars, lkVars, srVars, qVars, psVars,
    slVars, cpVars>>
\* what the queries leave alone
qRest == <<ctxVars, trVars, ttVars, lkVars, srVars, csVars, psVars,
    slVars, cpVars>>
\* what the category-list parsers leave alone
psRest == <<ctxVars, trVars, ttVars, lkVars, srVars, csVars, qVars, slVars,
    cpVars>>
\* what the level parsers leave alone
slRest == <<ctxVars, trVars, ttVars, lkVars, srVars, csVars, qVars, psVars,
    cpVars>>
\* what the context parsers leave alone
cpRest == <<ctxVars, trVars, ttVars, lkVars, srVars, csVars, qVars, psVars,
    slVars>>

\* ------------------------------------------------------------------------
\* Context retrieval
\* ------------------------------------------------------------------------
InitContext ==
    /\ label \in Labels
    /\ api = "none"
    /\ result = Err("none")
    /\ TrIdle
    /\ TtIdle
    /\ AuxIdle

GetFileContext ==
    /\ api = "none"
    /\ \E openOk \in BOOLEAN, sysOk \in BOOLEAN :
          result' = get_file_context(label, openOk, sysOk)
    /\ api' = "get_file_context"
    /\ UNCHANGED <<label, trVars, ttVars, auxVars>>

LGetFileContext ==
    /\ api = "none"
    /\ \E openOk \in BOOLEAN, sysOk \in BOOLEAN :
          result' = lget_file_context(label, openOk, sysOk)
    /\ api' = "lget_file_context"
    /\ UNCHANGED <<label, trVars, ttVars, auxVars>>

FGetFileContext ==
    /\ api = "none"
    /\ \E sysOk \in BOOLEAN : result' = fget_file_context(label, sysOk)
    /\ api' = "fget_file_context"
    /\ UNCHANGED <<label, trVars, ttVars, auxVars>>

GetPidContext ==
    /\ api = "none"
    /\ \E readOk \in BOOLEAN : result' = get_pid_context(label, readOk)
    /\ api' = "get_pid_context"
    /\ UNCHANGED <<label, trVars, ttVars, auxVars>>

GetSelfContext ==
    /\ api = "none"
    /\ \E readOk \in BOOLEAN : result' = get_self_context(label, readOk)
    /\ api' = "get_self_context"
    /\ UNCHANGED <<label, trVars, ttVars, auxVars>>

NextContext ==
    \/ GetFileContext
    \/ LGetFileContext
    \/ FGetFileContext
    \/ GetPidContext
    \/ GetSelfContext

SpecContext == InitContext /\ [][NextContext]_vars

\* ------------------------------------------------------------------------
\* Loading the range-form translator
\* ------------------------------------------------------------------------
InitTranslator == CtxIdle /\ TrIdle /\ TtIdle /\ AuxIdle

LoadSetransFile ==
    /\ trLoads < MaxLoads
    /\ \E file \in Files, openOk \in BOOLEAN :
          LET Loaded(r) ==
                /\ translator' = r.t
                /\ trFile' = file
                /\ trResult' = r.res
                /\ trHistory' = trHistory \o SubSeq(file, 1, r.done)
          IN Loaded(load_setrans_file(translator, file, openOk))
    /\ trLoads' = trLoads + 1
    /\ UNCHANGED <<ctxVars, ttVars, auxVars>>

NextTranslator == LoadSetransFile

SpecTranslator == InitTranslator /\ [][NextTranslator]_vars

\* ------------------------------------------------------------------------
\* Loading the bitmask-indexed table.  The caller-owned table and the
\* static share no state; a behaviour exercises one of the two.
\* ------------------------------------------------------------------------
InitTable == CtxIdle /\ TrIdle /\ TtIdle /\ AuxIdle

LoadFromReader ==
    /\ ttLoads < MaxLoads
    /\ TRANSLATION_MAP = None
    /\ \E file \in Files :
          LET Loaded(r) ==
                /\ table' = r.t
                /\ ttFile' = file
                /\ ttResult' = r.res
                /\ ttHistory' = ttHistory \o SubSeq(file, 1, r.done)
          IN Loaded(load_from_reader(table, file, 0))
    /\ ttLoads' = ttLoads + 1
    /\ UNCHANGED <<ctxVars, trVars, TRANSLATION_MAP, auxVars>>

\* the first get_map call: get_or_init runs the initialiser on the content
\* of /etc/selinux/targeted/setrans.conf
GetMapInit ==
    /\ TRANSLATION_MAP = None
    /\ ttLoads = 0
    /\ \E conf \in Files, openOk \in BOOLEAN :
          LET Initialised(r) ==
                /\ TRANSLATION_MAP' = Some(r.t)
                /\ ttFile' = conf
                /\ ttResult' = r.res
                /\ ttHistory' = SubSeq(conf, 1, r.done)
          IN Initialised(get_map_init(conf, openOk))
    /\ UNCHANGED <<ctxVars, trVars, table, ttLoads, auxVars>>

NextTable == LoadFromReader \/ GetMapInit

SpecTable == InitTable /\ [][NextTable]_vars

\* ------------------------------------------------------------------------
\* Threads on the two statics: load_setrans_file callers and readers of
\* GLOBAL_TRANSLATOR (an RwLock), get_map callers on TRANSLATION_MAP (a
\* OnceLock)
\* ------------------------------------------------------------------------
LockFiles ==
    {<<LnA, LnNotUtf8, LnS1>>, <<LnS1, LnB>>, <<LnD>>, <<LnA, LnBadCat, LnC>>}

InitLock == CtxIdle /\ TrIdle /\ TtIdle /\ AuxIdle

\* File::open, before the lock is asked for
LkOpen(t) ==
    /\ lkPc[t] = "idle"
    /\ \E file \in LockFiles, openOk \in BOOLEAN :
          IF openOk
          THEN /\ lkFile' = [lkFile EXCEPT ![t] = file]
               /\ lkPc' = [lkPc EXCEPT ![t] = "opened"]
               /\ UNCHANGED lkResult
          ELSE /\ lkResult' = [lkResult EXCEPT ![t] = Err("NotFound")]
               /\ lkPc' = [lkPc EXCEPT ![t] = "done"]
               /\ UNCHANGED lkFile
    /\ UNCHANGED <<lkRest, trVars, ttVars, lkWriter, lkReaders, lkIdx,
                   lkBefore, lkLast, lkObs, onceRunner, gmSeen>>

\* GLOBAL_TRANSLATOR.write(): granted when nobody holds the lock
LkWrite(t) ==
    /\ lkPc[t] = "opened"
    /\ lkWriter = None
    /\ lkReaders = {}
    /\ lkWriter' = Some(t)
    /\ lkBefore' = translator
    /\ lkLast' = Some(lkFile[t])
    /\ lkPc' = [lkPc EXCEPT ![t] = "loading"]
    /\ UNCHANGED <<lkRest, trVars, ttVars, lkReaders, lkFile, lkIdx,
                   lkResult, lkObs, onceRunner, gmSeen>>

\* one turn of the loop: a line that cannot be read returns the error and
\* the guard is dropped on the way out
LkLine(t) ==
    /\ lkPc[t] = "loading"
    /\ lkIdx[t] < Len(lkFile[t])
    /\ IF IsUtf8(lkFile[t][lkIdx[t] + 1])
       THEN /\ translator' = LoadLine(translator, lkFile[t][lkIdx[t] + 1])
            /\ lkIdx' = [lkIdx EXCEPT ![t] = lkIdx[t] + 1]
            /\ UNCHANGED <<lkWriter, lkResult, lkPc>>
       ELSE /\ lkResult' = [lkResult EXCEPT ![t] = Err("InvalidData")]
            /\ lkWriter' = None
            /\ lkPc' = [lkPc EXCEPT ![t] = "done"]
            /\ UNCHANGED <<translator, lkIdx>>
    /\ UNCHANGED <<lkRest, trFile, trResult, trHistory, trLoads, ttVars,
                   lkReaders, lkFile, lkBefore, lkLast, lkObs, onceRunner,
                   gmSeen>>

\* the end of the loop: drop(translator) and Ok(())
LkDrop(t) ==
    /\ lkPc[t] = "loading"
    /\ lkIdx[t] = Len(lkFile[t])
    /\ lkWriter' = None
    /\ lkResult' = [lkResult EXCEPT ![t] = Ok("unit")]
    /\ lkPc' = [lkPc EXCEPT ![t] = "done"]
    /\ UNCHANGED <<lkRest, trVars, ttVars, lkReaders, lkFile, lkIdx,
                   lkBefore, lkLast, lkObs, onceRunner, gmSeen>>

\* GLOBAL_TRANSLATOR.read(): granted when nobody holds the write lock
LkRead(t) ==
    /\ lkPc[t] = "idle"
    /\ lkWriter = None
    /\ lkReaders' = lkReaders \cup {t}
    /\ lkPc' = [lkPc EXCEPT ![t] = "reading"]
    /\ UNCHANGED <<lkRest, trVars, ttVars, lkWriter, lkFile, lkIdx,
                   lkResult, lkBefore, lkLast, lkObs, onceRunner, gmSeen>>

\* guard.lookup(&range) for whatever range, then the guard is dropped: the
\* reader has seen the translator as it is now
LkLookup(t) ==
    /\ lkPc[t] = "reading"
    /\ lkObs' = [lkObs EXCEPT ![t] =
                   Some([seen |-> translator, before |-> lkBefore,
                         last |-> lkLast])]
    /\ lkReaders' = lkReaders \ {t}
    /\ lkPc' = [lkPc EXCEPT ![t] = "done"]
    /\ UNCHANGED <<lkRest, trVars, ttVars, lkWriter, lkFile, lkIdx,
                   lkResult, lkBefore, lkLast, onceRunner, gmSeen>>

\* get_or_init finds the cell initialised
GmFast(c) ==
    /\ lkPc[c] = "idle"
    /\ TRANSLATION_MAP # None
    /\ gmSeen' = [gmSeen EXCEPT ![c] = TRANSLATION_MAP]
    /\ lkPc' = [lkPc EXCEPT ![c] = "done"]
    /\ UNCHANGED <<lkRest, trVars, ttVars, lkWriter, lkReaders, lkFile,
                   lkIdx, lkResult, lkBefore, lkLast, lkObs, onceRunner>>

\* get_or_init finds the cell empty and nobody initialising it: this
\* caller runs the initialiser, the others wait for the value
GmBegin(c) ==
    /\ lkPc[c] = "idle"
    /\ TRANSLATION_MAP = None
    /\ onceRunner = None
    /\ onceRunner' = Some(c)
    /\ lkPc' = [lkPc EXCEPT ![c] = "init"]
    /\ UNCHANGED <<lkRest, trVars, ttVars, lkWriter, lkReaders, lkFile,
                   lkIdx, lkResult, lkBefore, lkLast, lkObs, gmSeen>>

\* the initialiser returns its table, which becomes the cell's value
GmInit(c) ==
    /\ lkPc[c] = "init"
    /\ \E conf \in LockFiles, openOk \in BOOLEAN :
          LET Initialised(r) ==
                /\ TRANSLATION_MAP' = Some(r.t)
                /\ ttFile' = conf
                /\ ttResult' = r.res
                /\ ttHistory' = SubSeq(conf, 1, r.done)
                /\ gmSeen' = [gmSeen EXCEPT ![c] = Some(r.t)]
          IN Initialised(get_map_init(conf, openOk))
    /\ lkPc' = [lkPc EXCEPT ![c] = "done"]
    /\ UNCHANGED <<lkRest, trVars, table, ttLoads, lkWriter, lkReaders,
                   lkFile, lkIdx, lkResult, lkBefore, lkLast, lkObs,
                   onceRunner>>

NextLock ==
    \/ \E t \in Loaders : LkOpen(t)
    \/ \E t \in Loaders : LkWrite(t)
    \/ \E t \in Loaders : LkLine(t)
    \/ \E t \in Loaders : LkDrop(t)
    \/ \E t \in LkReaders : LkRead(t)
    \/ \E t \in LkReaders : LkLookup(t)
    \/ \E c \in GmCallers : GmFast(c)
    \/ \E c \in GmCallers : GmBegin(c)
    \/ \E c \in GmCallers : GmInit(c)

SpecLock == InitLock /\ [][NextLock]_vars

\* ------------------------------------------------------------------------
\* SecureReader::read / read_generic, step by step, while another process
\* may change what is mounted at the node's path
\* ------------------------------------------------------------------------
MaxRemounts == 1

\* filesystem types statfs can report: the two expected ones and tmpfs
Magics == {SELINUX_MAGIC, PROC_SUPER_MAGIC, "TMPFS_MAGIC"}

ContentPool ==
    {<<"1">>, <<"0", "\n">>, <<"3", "3", "\n">>, <<"1", " ", "0", "\n">>,
     <<"0", " ", "1">>, <<"x">>, <<>>, <<BadByte>>, <<"1", "x">>,
     <<"0", " ", "1", " ", "1">>, <<"x", " ", "y">>}

Mounts == [magic : Magics, content : ContentPool]

InitSecureReader ==
    /\ CtxIdle /\ TrIdle /\ TtIdle /\ LkIdle /\ CsIdle /\ QIdle /\ PsIdle
    /\ SlIdle /\ CpIdle
    /\ srNode \in Nodes
    /\ srMount \in Mounts
    /\ srPc = "idle"
    /\ srStatfs = None
    /\ srFile = None
    /\ srBuf = None
    /\ srParsed = FALSE
    /\ srResult = Err("none")
    /\ srRemounts = 0

\* statfs(path) and the provenance check
SrStatfs ==
    /\ srPc = "idle"
    /\ \E statOk \in BOOLEAN :
          IF ~statOk
          THEN /\ srResult' = Err("Other")
               /\ srPc' = "done"
               /\ UNCHANGED srStatfs
          ELSE /\ srStatfs' = Some(srMount.magic)
               /\ IF ProvenanceOk(srMount.magic, ExpectedMagic(srNode))
                  THEN srPc' = "checked" /\ UNCHANGED srResult
                  ELSE srPc' = "done" /\ srResult' = Err("PermissionDenied")
    /\ UNCHANGED <<srRest, srNode, srMount, srFile, srBuf, srParsed,
                   srRemounts>>

\* File::open(path): the file now at the path
SrOpen ==
    /\ srPc = "checked"
    /\ \E openOk \in BOOLEAN :
          IF openOk
          THEN /\ srFile' = Some(srMount)
               /\ srPc' = "opened"
               /\ UNCHANGED srResult
          ELSE /\ srResult' = Err("NotFound")
               /\ srPc' = "done"
               /\ UNCHANGED srFile
    /\ UNCHANGED <<srRest, srNode, srMount, srStatfs, srBuf, srParsed,
                   srRemounts>>

\* file.read(&mut buffer) and T::parse(&buffer[..bytes_read])
SrReadParse ==
    /\ srPc = "opened"
    /\ \E readOk \in BOOLEAN :
          IF readOk
          THEN LET Parse(buf) ==
                     /\ srBuf' = Some(buf)
                     /\ srParsed' = TRUE
                     /\ srResult' = NodeParse(srNode, buf)
               IN Parse(SubSeq(srFile[1].content, 1,
                               IF Len(srFile[1].content) < BUF_LEN
                               THEN Len(srFile[1].content) ELSE BUF_LEN))
          ELSE /\ srResult' = Err("Other")
               /\ UNCHANGED <<srBuf, srParsed>>
    /\ srPc' = "done"
    /\ UNCHANGED <<srRest, srNode, srMount, srStatfs, srFile, srRemounts>>

\* another process mounts something else over the node's path
Remount ==
    /\ srRemounts < MaxRemounts
    /\ srPc # "done"
    /\ \E m \in Mounts : m # srMount /\ srMount' = m
    /\ srRemounts' = srRemounts + 1
    /\ UNCHANGED <<srRest, srNode, srPc, srStatfs, srFile, srBuf, srParsed,
                   srResult>>

NextSecureReader == SrStatfs \/ SrOpen \/ SrReadParse \/ Remount

SpecSecureReader == InitSecureReader /\ [][NextSecureReader]_vars

\* ------------------------------------------------------------------------
\* CategorySet operations on sets whose categories lie in several words
\* ------------------------------------------------------------------------
CatPool == {0, 63, 64, 1023}

CatSets == {BitsOf(ids) : ids \in SUBSET CatPool}

InitCategory ==
    /\ CtxIdle /\ TrIdle /\ TtIdle /\ LkIdle /\ SrIdle /\ QIdle /\ PsIdle
    /\ SlIdle /\ CpIdle
    /\ csA \in CatSets
    /\ csB \in CatSets
    /\ csC \in CatSets
    /\ csOp = "none"
    /\ csOut = FALSE

CsDominates ==
    /\ csOp = "none"
    /\ csOut' = CategorySet_dominates(csA, csB)
    /\ csOp' = "dominates"
    /\ UNCHANGED <<csRest, csA, csB, csC>>

\* SecurityLevel::dominates on two levels of one sensitivity that hold the
\* two sets
CsLevelDominates ==
    /\ csOp = "none"
    /\ csOut' = SecurityLevel_dominates(
                   SecurityLevel(0, CategorySet_iter(csA)),
                   SecurityLevel(0, CategorySet_iter(csB)))
    /\ csOp' = "level_dominates"
    /\ UNCHANGED <<csRest, csA, csB, csC>>

CsUnion ==
    /\ csOp = "none"
    /\ csOut' = CategorySet_union(csA, csB)
    /\ csOp' = "union"
    /\ UNCHANGED <<csRest, csA, csB, csC>>

CsIntersection ==
    /\ csOp = "none"
    /\ csOut' = CategorySet_intersection(csA, csB)
    /\ csOp' = "intersection"
    /\ UNCHANGED <<csRest, csA, csB, csC>>

NextCategory ==
    CsDominates \/ CsLevelDominates \/ CsUnion \/ CsIntersection

SpecCategory == InitCategory /\ [][NextCategory]_vars

\* ------------------------------------------------------------------------
\* Dominance queries on a loaded translator
\* ------------------------------------------------------------------------
QlP == <<"s", "0", ":", "c", "0", " ", "=", " ", "P", " ", "#", " ", "p">>
QlQ == <<"s", "0", ":", "c", "0", ",", "c", "5", "=", "Q">>
QlR == <<"s", "1", ":", "c", "0", "=", "R", " ", "#", " ", "r">>
QlT == <<"s", "0", ":", "c", "0", "-", "s", "1", ":", "c", "0", ".", "c",
    "5", "=", "T">>
QlU == <<"s", "0", "=", "U">>
QlV == <<"s", "0", ":", "c", "1", "1", "=", "V", " ", "#", " ", "v">>

RgProc == <<"s", "0", ":", "c", "0", ".", "c", "1", "0">>
RgLow == <<"s", "0">>
RgS1 == <<"s", "1", ":", "c", "0">>
RgSpan == <<"s", "0", ":", "c", "0", "-", "s", "1", ":", "c", "0", ".",
    "c", "1", "1">>
RgS1Wide == <<"s", "1", ":", "c", "0", ".", "c", "5", ",", "c", "1", "1">>
RgC5 == <<"s", "0", ":", "c", "5">>

QlW == <<"s", "1", ":", "c", "0", ",", "c", "5", " ", "=", " ", "P">>
QlX == <<"s", "1", "-", "s", "2", ":", "c", "0", " ", "=", " ", "U", " ", "#",
    " ", "x">>

QueryFiles ==
    {<<QlP, QlQ, QlR, QlT, QlU, QlV>>, <<QlQ, QlR, QlV>>, <<QlT, QlU>>,
     <<QlP, QlW, QlT, QlU, QlX>>}

\* markings asked of lookup_by_marking
Markings ==
    {<<"P">>, <<" ", "P", " ">>, <<"T">>, <<"U">>, <<"Z">>, <<"p">>}

\* the ranges of subjects and objects, parsed from their kernel strings
RangePool ==
    {Unwrap(SecurityRange_from_str(s)) :
       s \in {RgProc, RgLow, RgS1, RgSpan, RgS1Wide, RgC5}}

InitQuery ==
    /\ CtxIdle /\ TtIdle /\ LkIdle /\ SrIdle /\ CsIdle /\ PsIdle
    /\ SlIdle /\ CpIdle
    /\ \E file \in QueryFiles :
          /\ translator = load_setrans_file(Translator_new, file, TRUE).t
          /\ trFile = file
          /\ trHistory = file
    /\ trResult = Ok("unit")
    /\ trLoads = 1
    /\ qSubject \in RangePool
    /\ qObject \in RangePool
    /\ qOp = "none"
    /\ qOut = FALSE

CanRead ==
    /\ qOp = "none"
    /\ qOut' = can_read(qSubject, qObject)
    /\ qOp' = "can_read"
    /\ UNCHANGED <<qRest, qSubject, qObject>>

ListReadableMarkings ==
    /\ qOp = "none"
    /\ qOut' = list_readable_markings(translator, qSubject)
    /\ qOp' = "list_readable_markings"
    /\ UNCHANGED <<qRest, qSubject, qObject>>

LookupByMarking ==
    /\ qOp = "none"
    /\ \E marking \in Markings :
          qOut' = <<marking, lookup_by_marking(translator, marking)>>
    /\ qOp' = "lookup_by_marking"
    /\ UNCHANGED <<qRest, qSubject, qObject>>

NextQuery == CanRead \/ ListReadableMarkings \/ LookupByMarking

SpecQuery == InitQuery /\ [][NextQuery]_vars

\* ------------------------------------------------------------------------
\* Parsing a category list, written in two orders of its tokens
\* ------------------------------------------------------------------------
MaxTokens == 2

TokenPool ==
    {<<"c", "1">>,
     <<"c", "9", "0">>,
     <<"c", "9", "1">>,
     <<"c", "0", ".", "c", "2">>,
     <<"c", "5", ".", "c", "2">>,
     <<"c", "1", ".", "c", "2", ".", "c", "3">>,
     <<"c", "c", "1", ".", "c", "2">>,
     <<>>,
     <<"c", "1", "0", "2", "4">>,
     <<"c", "x">>,
     <<"1">>,
     <<"c", "+", "1">>,
     <<"c", "1", "0", "2", "2", ".", "c", "1", "0", "2", "4">>}

\* ids given to Category::new: both ends of the domain, the first id
\* above it, and the largest u16
CategoryIds == {0, 1, 1023, 1024, 65535}

\* the permutations of 1..n
Perms(n) ==
    {p \in [1..n -> 1..n] : \A i, j \in 1..n : p[i] = p[j] => i = j}

S0Colon == <<"s", "0", ":">>
EqualsL == <<"=", "L">>

\* the category list the tokens spell
ListOf(tokens) == Join(tokens, ",")

InitParse ==
    /\ CtxIdle /\ TrIdle /\ TtIdle /\ LkIdle /\ SrIdle /\ CsIdle /\ QIdle
    /\ SlIdle /\ CpIdle
    /\ \E n \in 1..MaxTokens :
          \E ts \in [1..n -> TokenPool], p \in Perms(n) :
             /\ psTokens = ts
             /\ psPerm = [i \in 1..n |-> ts[p[i]]]
    /\ psOp = "none"
    /\ psOut = <<>>

PsCategorySetFromStr ==
    /\ psOp = "none"
    /\ psOut' = <<CategorySet_from_str(ListOf(psTokens)),
                  CategorySet_from_str(ListOf(psPerm))>>
    /\ psOp' = "CategorySet_from_str"
    /\ UNCHANGED <<psRest, psTokens, psPerm>>

PsParseMcsCategories ==
    /\ psOp = "none"
    /\ psOut' = <<parse_mcs_categories(ListOf(psTokens)),
                  parse_mcs_categories(ListOf(psPerm))>>
    /\ psOp' = "parse_mcs_categories"
    /\ UNCHANGED <<psRest, psTokens, psPerm>>

PsSecurityLevelFromStr ==
    /\ psOp = "none"
    /\ psOut' = <<SecurityLevel_from_str(S0Colon \o ListOf(psTokens)),
                  SecurityLevel_from_str(S0Colon \o ListOf(psPerm))>>
    /\ psOp' = "SecurityLevel_from_str"
    /\ UNCHANGED <<psRest, psTokens, psPerm>>

PsSecurityRangeFromStr ==
    /\ psOp = "none"
    /\ psOut' = <<SecurityRange_from_str(S0Colon \o ListOf(psTokens)),
                  SecurityRange_from_str(S0Colon \o ListOf(psPerm))>>
    /\ psOp' = "SecurityRange_from_str"
    /\ UNCHANGED <<psRest, psTokens, psPerm>>

\* a translator loaded with the rule s0:<first list>=L is asked for the
\* range each of the two lists spells
PsLookup ==
    /\ psOp = "none"
    /\ LET Ask(t, r) == IF r.ok THEN lookup(t, Unwrap(r)) ELSE None
           Both(t) ==
             <<Ask(t, SecurityRange_from_str(S0Colon \o ListOf(psTokens))),
               Ask(t, SecurityRange_from_str(S0Colon \o ListOf(psPerm)))>>
       IN psOut' = Both(load_setrans_file(Translator_new,
                          <<S0Colon \o ListOf(psTokens) \o EqualsL>>, TRUE).t)
    /\ psOp' = "lookup"
    /\ UNCHANGED <<psRest, psTokens, psPerm>>

\* a table loaded with the line s0:<first list>=L is asked for the
\* category set each of the two lists spells
PsGetText ==
    /\ psOp = "none"
    /\ LET Ask(tt, c) == IF c.ok THEN get_text(tt, Unwrap(c)) ELSE None
           Both(tt) ==
             <<Ask(tt, parse_mcs_categories(ListOf(psTokens))),
               Ask(tt, parse_mcs_categories(ListOf(psPerm)))>>
       IN psOut' = Both(load_from_reader(TranslationTable_new,
                          <<S0Colon \o ListOf(psTokens) \o EqualsL>>, 0).t)
    /\ psOp' = "get_text"
    /\ UNCHANGED <<psRest, psTokens, psPerm>>

\* Category::new(id), then id() of the category it built
PsCategoryNew ==
    /\ psOp = "none"
    /\ \E id \in CategoryIds : psOut' = <<Category_new(id), id>>
    /\ psOp' = "Category_new"
    /\ UNCHANGED <<psRest, psTokens, psPerm>>

NextParse ==
    \/ PsCategoryNew
    \/ PsCategorySetFromStr
    \/ PsParseMcsCategories
    \/ PsSecurityLevelFromStr
    \/ PsSecurityRangeFromStr
    \/ PsLookup
    \/ PsGetText

SpecParse == InitParse /\ [][NextParse]_vars

\* ------------------------------------------------------------------------
\* Parsing a level and a range of two levels
\* ------------------------------------------------------------------------
LevelStrings ==
    {<<"s", "0">>, <<"s", "2">>, <<"s", "1", "5">>,
     <<"s", "1", "6">>, <<"S", "0">>, <<"x", "0">>,
     <<"0">>, <<>>, <<"s", "s", "0">>,
     <<"s", "+", "1">>, <<"s", "x">>, <<"s">>,
     <<"s", "6", "5", "5", "3", "6">>, <<"s", "0", ":", "c", "1">>, <<"s", "2", ":", "c", "0", ".", "c", "2">>,
     <<"s", "1", "6", ":", "c", "1">>}

\* the string given to SecurityRange::from_str: one level, or low-high
RangeString ==
    IF slHigh = None THEN slLow ELSE slLow \o <<"-">> \o slHigh[1]

InitLevel ==
    /\ CtxIdle /\ TrIdle /\ TtIdle /\ LkIdle /\ SrIdle /\ CsIdle /\ QIdle
    /\ PsIdle /\ CpIdle
    /\ slLow \in LevelStrings
    /\ slHigh \in {None} \cup {Some(h) : h \in LevelStrings}
    /\ slOp = "none"
    /\ slOut = <<>>

SlSensitivityFromStr ==
    /\ slOp = "none"
    /\ slHigh = None
    /\ slOut' = SensitivityLevel_from_str(slLow)
    /\ slOp' = "SensitivityLevel_from_str"
    /\ UNCHANGED <<slRest, slLow, slHigh>>

SlLevelFromStr ==
    /\ slOp = "none"
    /\ slHigh = None
    /\ slOut' = SecurityLevel_from_str(slLow)
    /\ slOp' = "SecurityLevel_from_str"
    /\ UNCHANGED <<slRest, slLow, slHigh>>

SlRangeFromStr ==
    /\ slOp = "none"
    /\ slOut' = SecurityRange_from_str(RangeString)
    /\ slOp' = "SecurityRange_from_str"
    /\ UNCHANGED <<slRest, slLow, slHigh>>

NextLevel ==
    \/ SlSensitivityFromStr
    \/ SlLevelFromStr
    \/ SlRangeFromStr

SpecLevel == InitLevel /\ [][NextLevel]_vars

\* ------------------------------------------------------------------------
\* The two context parsers on a context string
\* ------------------------------------------------------------------------
Repeat(ch, n) == [i \in 1..n |-> ch]

\* identifiers of 255 and of 256 characters
LongUser == Repeat("a", MAX_USER_LEN - 2) \o <<"_", "u">>
TooLongUser == Repeat("a", MAX_USER_LEN - 1) \o <<"_", "u">>
TooLongRole == Repeat("a", MAX_ROLE_LEN - 1) \o <<"_", "r">>
TooLongType == Repeat("a", MAX_TYPE_LEN - 1) \o <<"_", "t">>

ContextStrings ==
    {Join(fs, ":") : fs \in FieldSeqs}
    \cup {<<>>,
          Join(<<LongUser, sys_r, ssh_t>>, ":"),
          Join(<<TooLongUser, sys_r, ssh_t>>, ":"),
          Join(<<sys_u, TooLongRole, ssh_t>>, ":"),
          Join(<<sys_u, sys_r, TooLongType, <<"s", "0">> >>, ":")}

InitContextParse ==
    /\ CtxIdle /\ TrIdle /\ TtIdle /\ LkIdle /\ SrIdle /\ CsIdle /\ QIdle
    /\ PsIdle /\ SlIdle
    /\ cpIn \in ContextStrings
    /\ cpOp = "none"
    /\ cpOut = <<>>

\* Path B alone
CpFromStr ==
    /\ cpOp = "none"
    /\ cpOut' = SecurityContext_from_str(cpIn)
    /\ cpOp' = "from_str"
    /\ UNCHANGED <<cpRest, cpIn>>

\* Path A alone
CpParseContextNom ==
    /\ cpOp = "none"
    /\ cpOut' = parse_context_nom(cpIn)
    /\ cpOp' = "parse_context_nom"
    /\ UNCHANGED <<cpRest, cpIn>>

\* s.parse::<SecurityContext>() succeeded, then to_string() of the context
CpDisplay ==
    /\ cpOp = "none"
    /\ SecurityContext_from_str(cpIn).ok
    /\ LET Shown(ctx) == <<ctx, SecurityContext_Display(ctx)>>
       IN cpOut' = Shown(Unwrap(SecurityContext_from_str(cpIn)))
    /\ cpOp' = "display"
    /\ UNCHANGED <<cpRest, cpIn>>

\* both paths on the same string, as read_context runs them
CpBothPaths ==
    /\ cpOp = "none"
    /\ cpOut' = <<parse_context_nom(cpIn), SecurityContext_from_str(cpIn)>>
    /\ cpOp' = "both"
    /\ UNCHANGED <<cpRest, cpIn>>

NextContextParse ==
    \/ CpFromStr
    \/ CpParseContextNom
    \/ CpDisplay
    \/ CpBothPaths

SpecContextParse == InitContextParse /\ [][NextContextParse]_vars

\* ------------------------------------------------------------------------
\* Properties of the context reader
\* ------------------------------------------------------------------------
FileApis == {"get_file_context", "lget_file_context", "fget_file_context"}
PidApis == {"get_pid_context", "get_self_context"}

\* the source was read: the call did not end in an open or syscall failure
WasRead == api # "none" /\ result.err \notin {"Other", "NotFound"}

\* the string the parsers are given: the xattr without one trailing NUL,
\* the procfs attribute trimmed
Decoded ==
    IF api \in PidApis THEN Trim(label)
    ELSE IF Len(label) > 0 /\ label[Len(label)] = NUL
         THEN SubSeq(label, 1, Len(label) - 1)
    ELSE label

Decodable == Len(label) > 0 /\ IsUtf8(label)

\* identifier validity as the data model states it: 3 to 255 characters of
\* [a-z0-9_], the mandatory two-character suffix, a non-empty stem
ValidIdent(f, suffix) ==
    /\ Len(f) >= 3 /\ Len(f) <= 255
    /\ \A i \in 1..Len(f) : f[i] \in LowerChars \cup Digits \cup {"_"}
    /\ f[Len(f) - 1] = "_" /\ f[Len(f)] = suffix

DecodedFields == Split(Decoded, ":")

ValidIdentifiers ==
    /\ Len(DecodedFields) >= 3
    /\ ValidIdent(DecodedFields[1], "u")
    /\ ValidIdent(DecodedFields[2], "r")
    /\ ValidIdent(DecodedFields[3], "t")

\* a sensitivity token sN with N in 0..15
ValidSensToken(tok) ==
    /\ StartsWith(tok, "s")
    /\ \E n \in 0..MAX_SENSITIVITY : ParseUInt(Tail(tok), U16_MAX) = Some(n)

\* C1: read_context releases a context only if Path A and Path B both
\* succeeded on the decoded string with equal results, the released context
\* being that result; when both succeed and differ the call returns
\* PermissionDenied.
C1_GateReleasesOnlyOnAgreement ==
    (api \in FileApis /\ WasRead) =>
        LET a == parse_context_nom(Decoded)
            b == SecurityContext_from_str(Decoded)
        IN /\ result.ok =>
                /\ Decodable /\ a.ok /\ b.ok
                /\ Unwrap(a) = Unwrap(b)
                /\ result = Ok(Unwrap(a))
           /\ (Decodable /\ a.ok /\ b.ok /\ Unwrap(a) # Unwrap(b)) =>
                result = Err("PermissionDenied")

\* both paths accepted the string with different contexts, and the reader
\* denied
C1_Witness ==
    /\ api \in FileApis /\ WasRead /\ Decodable
    /\ parse_context_nom(Decoded).ok
    /\ SecurityContext_from_str(Decoded).ok
    /\ parse_context_nom(Decoded) # SecurityContext_from_str(Decoded)
    /\ result = Err("PermissionDenied")

\* C2: a context string with fewer than three colon-separated fields makes
\* read_context return PermissionDenied.
C2_MissingColonIsPermissionDenied ==
    (api \in FileApis /\ WasRead /\ Decodable /\ Len(DecodedFields) < 3) =>
        result = Err("PermissionDenied")

\* C3: for user:role:type with valid identifiers and no level field, both
\* paths produce the same context, with the three identifiers and no
\* level, and read_context returns it.
C3_ThreeFieldAgreement ==
    (api \in FileApis /\ WasRead /\ Decodable /\ ValidIdentifiers
       /\ Len(DecodedFields) = 3) =>
        LET a == parse_context_nom(Decoded)
            b == SecurityContext_from_str(Decoded)
            ctx == [user |-> DecodedFields[1], role |-> DecodedFields[2],
                    security_type |-> DecodedFields[3], level |-> None]
        IN a = Ok(ctx) /\ b = Ok(ctx) /\ result = Ok(ctx)

C3_Witness ==
    /\ api \in FileApis /\ WasRead /\ Decodable /\ ValidIdentifiers
    /\ Len(DecodedFields) = 3
    /\ result.ok /\ Unwrap(result).level = None

\* C4: a label user:role:type:sN:cats with valid fields is returned by
\* read_context with sensitivity N and exactly the listed categories.
C4_LevelWithInternalColon ==
    (/\ api \in FileApis /\ WasRead /\ Decodable /\ ValidIdentifiers
     /\ Len(DecodedFields) = 5
     /\ ValidSensToken(DecodedFields[4])
     /\ Len(DecodedFields[5]) > 0
     /\ parse_mcs_categories(DecodedFields[5]).ok) =>
        /\ result.ok
        /\ Unwrap(result).level # None
        /\ Unwrap(result).level[1].sensitivity =
              ParseUInt(Tail(DecodedFields[4]), U16_MAX)[1]
        /\ Unwrap(result).level[1].categories =
              Unwrap(parse_mcs_categories(DecodedFields[5]))

\* C5: a level whose sensitivity token is not a valid sN (the level not
\* being the alias SystemLow), or whose category list is malformed, is
\* never accepted: the retrieval returns an error, not a context.
C5_NoDefaultForInvalidSensitivity ==
    (/\ WasRead /\ Decodable /\ ValidIdentifiers
     /\ Len(DecodedFields) >= 4
     /\ Join(SubSeq(DecodedFields, 4, Len(DecodedFields)), ":") # SystemLow
     /\ \/ ~ValidSensToken(DecodedFields[4])
        \/ /\ Len(DecodedFields) >= 5
           /\ ~parse_mcs_categories(DecodedFields[5]).ok) =>
        ~result.ok

\* C6: every context a public retrieval function returns was accepted by
\* Path A and by Path B with equal results.
C6_EveryRetrievalIsDualPath ==
    (api # "none" /\ result.ok) =>
        /\ parse_context_nom(Decoded).ok
        /\ SecurityContext_from_str(Decoded).ok
        /\ parse_context_nom(Decoded) = SecurityContext_from_str(Decoded)

\* ------------------------------------------------------------------------
\* Properties of the setrans loaders
\* ------------------------------------------------------------------------
\* the rule a setrans line defines in the range form, if it defines one:
\* Some(<<range, label, detail>>)
RuleOf(rawLine) ==
    LET line == Trim(rawLine)
        so == SplitOnce(line, "=")
    IN IF Len(line) = 0 \/ StartsWith(line, "#") \/ so = None THEN None
       ELSE LET range == SecurityRange_from_str(so[1][1])
                lc == LabelAndComment(so[1][2])
            IN IF range.ok THEN Some(<<Unwrap(range), lc[1], lc[2]>>)
               ELSE None

\* line i of h is the first line of h that defines its range
FirstRangeDef(h, i) ==
    /\ RuleOf(h[i]) # None
    /\ \A j \in 1..(i - 1) :
          RuleOf(h[j]) = None \/ RuleOf(h[j])[1][1] # RuleOf(h[i])[1][1]

\* C7: after any sequence of load_setrans_file calls the translator holds
\* exactly the ranges the loaded lines define, each with the label and the
\* detail of the first line that defined it.
C7_FirstDefinitionWins ==
    /\ DOMAIN translator.rules =
          {RuleOf(trHistory[i])[1][1] :
             i \in {k \in 1..Len(trHistory) : RuleOf(trHistory[k]) # None}}
    /\ \A i \in 1..Len(trHistory) :
          FirstRangeDef(trHistory, i) =>
             /\ lookup(translator, RuleOf(trHistory[i])[1][1])
                   = Some(RuleOf(trHistory[i])[1][2])
             /\ get_detail(translator, RuleOf(trHistory[i])[1][1])
                   = RuleOf(trHistory[i])[1][3]

\* two loaded lines define one range with different labels and details,
\* and lookup serves the first
C7_Witness ==
    \E i, j \in 1..Len(trHistory) :
       /\ i < j
       /\ FirstRangeDef(trHistory, i)
       /\ RuleOf(trHistory[j]) # None
       /\ RuleOf(trHistory[j])[1][1] = RuleOf(trHistory[i])[1][1]
       /\ RuleOf(trHistory[j])[1][2] # RuleOf(trHistory[i])[1][2]
       /\ RuleOf(trHistory[j])[1][3] # RuleOf(trHistory[i])[1][3]
       /\ lookup(translator, RuleOf(trHistory[i])[1][1])
             = Some(RuleOf(trHistory[i])[1][2])

\* the table load_from_reader worked on: the static's, or the caller's
LoadedTable ==
    IF TRANSLATION_MAP # None THEN TRANSLATION_MAP[1] ELSE table

\* the entry a setrans line defines in the bitmask form, if it defines
\* one: Some(<<category set, marking>>)
EntryOf(rawLine) ==
    LET data == Trim(Split(Trim(rawLine), "#")[1])
        so == SplitOnce(data, "=")
    IN IF Len(data) = 0 \/ so = None THEN None
       ELSE LET lv == SplitOnce(Trim(so[1][1]), ":")
                cats == IF lv = None \/ Len(lv[1][2]) = 0 THEN Ok({})
                        ELSE parse_mcs_categories(lv[1][2])
            IN IF cats.ok THEN Some(<<Unwrap(cats), Trim(so[1][2])>>)
               ELSE None

\* C8: get_text returns, for every category set, the marking of the first
\* loaded line that defined the set.
C8_TableFirstDefinitionWins ==
    \A i \in 1..Len(ttHistory) :
       (/\ EntryOf(ttHistory[i]) # None
        /\ \A j \in 1..(i - 1) :
              \/ EntryOf(ttHistory[j]) = None
              \/ EntryOf(ttHistory[j])[1][1] # EntryOf(ttHistory[i])[1][1]) =>
          get_text(LoadedTable, EntryOf(ttHistory[i])[1][1])
             = Some(EntryOf(ttHistory[i])[1][2])

\* C9: the table handed out by get_map holds no entry of a file whose load
\* stopped with an error.
C9_AbortedLoadNotServed ==
    (TRANSLATION_MAP # None /\ ~ttResult.ok) =>
        TRANSLATION_MAP[1] = TranslationTable_new

\* C10: a malformed line does not stop load_from_reader: when every line
\* of the file can be read, the load handles all of them and succeeds, and
\* every line that defines an entry has its category set in the table.
C10_MalformedLineSkipped ==
    (/\ ttLoads > 0 \/ TRANSLATION_MAP # None
     /\ ttResult.err # "NotFound"
     /\ \A i \in 1..Len(ttFile) : IsUtf8(ttFile[i])) =>
        /\ ttResult.ok
        /\ \A i \in 1..Len(ttFile) :
              EntryOf(ttFile[i]) # None =>
                 EntryOf(ttFile[i])[1][1] \in DOMAIN LoadedTable.to_text

\* the same statement for load_setrans_file
LoadSetransSkipsMalformed ==
    (/\ trLoads > 0
     /\ trResult.err # "NotFound"
     /\ \A i \in 1..Len(trFile) : IsUtf8(trFile[i])) =>
        /\ trResult.ok
        /\ \A i \in 1..Len(trFile) :
              RuleOf(trFile[i]) # None =>
                 RuleOf(trFile[i])[1][1] \in DOMAIN translator.rules

\* ------------------------------------------------------------------------
\* Properties of the threads on the statics
\* ------------------------------------------------------------------------
\* the write lock excludes every other holder: a loader inside its loop is
\* the writer, and no reader holds the lock meanwhile
LoadsAreSerialised ==
    /\ \A t \in Loaders : lkPc[t] = "loading" => lkWriter = Some(t)
    /\ lkWriter # None => lkReaders = {}
    /\ \A t \in LkReaders : lkPc[t] = "reading" => t \in lkReaders

\* the initialiser of TRANSLATION_MAP has one runner, and every caller is
\* handed the cell's one value
GetMapInitialisedOnce ==
    /\ \A c \in GmCallers : lkPc[c] = "init" => onceRunner = Some(c)
    /\ \A c \in GmCallers : gmSeen[c] # None => gmSeen[c] = TRANSLATION_MAP

\* every rule line of the file has its range in the translator
HoldsEveryRuleOf(t, file) ==
    \A i \in 1..Len(file) :
       RuleOf(file[i]) # None => RuleOf(file[i])[1][1] \in DOMAIN t.rules

\* C11: a reader of the translation table sees it either as it was before
\* the latest load began or holding every rule of that load's file,
\* whatever the load returned; loads are serialised by the write lock; the
\* initialiser of get_map runs once and all callers see the same table.
C11_ReadersNeverSeePartialTable ==
    /\ LoadsAreSerialised
    /\ GetMapInitialisedOnce
    /\ \A t \in LkReaders :
          (lkObs[t] # None /\ lkObs[t][1].last # None) =>
             \/ lkObs[t][1].seen = lkObs[t][1].before
             \/ HoldsEveryRuleOf(lkObs[t][1].seen, lkObs[t][1].last[1])

\* a reader never sees the translator while a loader is between two lines
ReadersSeeNoLoadInProgress ==
    \A t \in LkReaders :
       lkPc[t] = "reading" => \A l \in Loaders : lkPc[l] # "loading"

\* C12: once a load of the translator has completed, no later step changes
\* what lookup and get_detail return for any range.
C12_ReadOnlyAfterLoad ==
    [][(trLoads >= 1 /\ trResult.ok) =>
          \A rg \in DOMAIN translator.rules \cup DOMAIN translator'.rules :
             /\ lookup(translator', rg) = lookup(translator, rg)
             /\ get_detail(translator', rg) = get_detail(translator, rg)]_vars

\* ------------------------------------------------------------------------
\* Properties of the kernel attribute reader
\* ------------------------------------------------------------------------
\* C13: whenever statfs reported a filesystem type other than the node's
\* expected magic, the result is PermissionDenied, and the file was not
\* opened, not read and not parsed.
C13_MagicMismatchIsDenied ==
    (srStatfs # None /\ srStatfs[1] # ExpectedMagic(srNode)) =>
        /\ srPc = "done"
        /\ srResult = Err("PermissionDenied")
        /\ srFile = None
        /\ srBuf = None
        /\ ~srParsed

\* the wrong filesystem holds a file the node's parser accepts, and the
\* reader denied
C13_Witness ==
    /\ srStatfs # None /\ srStatfs[1] # ExpectedMagic(srNode)
    /\ NodeParse(srNode, srMount.content).ok
    /\ srRemounts = 0
    /\ srResult = Err("PermissionDenied")

\* C14: every value SecureReader returns was parsed from a file on a
\* filesystem with the expected magic, whatever is mounted at the path
\* between the statfs check and the open.
C14_ValueComesFromExpectedFilesystem ==
    srResult.ok =>
        /\ srFile # None
        /\ srFile[1].magic = ExpectedMagic(srNode)

\* ------------------------------------------------------------------------
\* Properties of CategorySet
\* ------------------------------------------------------------------------
\* every category of other is a category of self
HoldsAllOf(self, other) ==
    \A id \in 0..MAX_CATEGORY :
       CategorySet_contains(other, id) => CategorySet_contains(self, id)

\* C15: A.dominates(B) is true iff every category contained in B is
\* contained in A, and the per-category loop of SecurityLevel::dominates
\* gives the same answer.
C15_DominatesIsSuperset ==
    /\ csOp = "dominates" => csOut = HoldsAllOf(csA, csB)
    /\ csOp = "level_dominates" => csOut = CategorySet_dominates(csA, csB)

\* A dominates a different set B whose categories lie in two words
C15_Witness ==
    /\ csOp = "dominates"
    /\ csOut
    /\ csA # csB
    /\ CategorySet_contains(csB, 0)
    /\ CategorySet_contains(csB, 64)

\* C16: dominance is reflexive and transitive, A.union(B) dominates A and
\* B, and whatever A.intersection(B) dominates is dominated by A and by B.
C16_DominanceIsPartialOrder ==
    /\ CategorySet_dominates(csA, csA)
    /\ (CategorySet_dominates(csA, csB) /\ CategorySet_dominates(csB, csC))
          => CategorySet_dominates(csA, csC)
    /\ csOp = "union" =>
          /\ CategorySet_dominates(csOut, csA)
          /\ CategorySet_dominates(csOut, csB)
    /\ (csOp = "intersection" /\ CategorySet_dominates(csOut, csC)) =>
          /\ CategorySet_dominates(csA, csC)
          /\ CategorySet_dominates(csB, csC)

\* the union of two sets, neither of which dominates the other, was taken
C16_Witness ==
    /\ csOp = "union"
    /\ ~CategorySet_dominates(csA, csB)
    /\ ~CategorySet_dominates(csB, csA)
    /\ CategorySet_dominates(csOut, csB)

\* ------------------------------------------------------------------------
\* Properties of the dominance queries
\* ------------------------------------------------------------------------
\* the low level of the subject dominates the low level of the object
LowDominates(subject, object) ==
    /\ subject.low.sensitivity >= object.low.sensitivity
    /\ object.low.categories \subseteq subject.low.categories

\* C17: can_read(subject, object) is true iff the subject's low
\* sensitivity is at least the object's and every category of the object's
\* low level is in the subject's low level; the high bounds of the two
\* ranges do not influence the result.
C17_CanReadComparesLowBounds ==
    qOp = "can_read" =>
        /\ qOut = LowDominates(qSubject, qObject)
        /\ \A s \in RangePool, o \in RangePool :
              can_read(SecurityRange(qSubject.low, s.high),
                       SecurityRange(qObject.low, o.high)) = qOut

\* a subject reads an object whose high bound it does not dominate
C17_Witness ==
    /\ qOp = "can_read"
    /\ qOut
    /\ qObject.high # qObject.low
    /\ ~SecurityLevel_dominates(qSubject.high, qObject.high)

\* C18: list_readable_markings(subject) returns exactly the loaded rules
\* the subject can read, each once, as (range, label, detail) with the
\* rule's own label and detail.
C18_ListIsExactlyTheReadableRules ==
    qOp = "list_readable_markings" =>
        /\ \A rg \in DOMAIN translator.rules :
              LowDominates(qSubject, rg) =>
                 /\ Cardinality({i \in 1..Len(qOut) : qOut[i][1] = rg}) = 1
                 /\ \E i \in 1..Len(qOut) :
                       qOut[i] = <<rg, translator.rules[rg],
                                   get_detail(translator, rg)>>
        /\ \A i \in 1..Len(qOut) :
              /\ qOut[i][1] \in DOMAIN translator.rules
              /\ LowDominates(qSubject, qOut[i][1])

\* the subject s0:c0.c10 is listed some rules and refused others, and one
\* listed rule has no detail
C18_Witness ==
    /\ qOp = "list_readable_markings"
    /\ qSubject = Unwrap(SecurityRange_from_str(RgProc))
    /\ Len(qOut) >= 2
    /\ Len(qOut) < Cardinality(DOMAIN translator.rules)
    /\ \E i \in 1..Len(qOut) : qOut[i][3] = <<>>
    /\ \E i \in 1..Len(qOut) : qOut[i][3] # <<>>

\* C19: the order of the tokens of a category list never matters: when the
\* list as written parses, the list with its tokens in any other order
\* parses too, to the same CategorySet and the same SecurityRange, and a
\* label that Translator::lookup or TranslationTable::get_text finds for
\* the list as written is found for the reordered list too.
C19_TokenOrderNeverMatters ==
    /\ psOp \in {"CategorySet_from_str", "parse_mcs_categories",
                 "SecurityLevel_from_str", "SecurityRange_from_str"}
          => (psOut[1].ok => psOut[2] = psOut[1])
    /\ psOp \in {"lookup", "get_text"}
          => (psOut[1] # None => psOut[2] = psOut[1])

\* "c90,c91" is loaded and "c91,c90" is looked up, and the label is found
C19_Witness ==
    /\ psOp = "lookup"
    /\ psTokens = <<<<"c", "9", "0">>, <<"c", "9", "1">>>>
    /\ psPerm = <<<<"c", "9", "1">>, <<"c", "9", "0">>>>
    /\ psOut[1] = Some(<<"L">>)
    /\ psOut[2] = Some(<<"L">>)

\* The category-list grammar: a token is cN, or cA.cB, with N, A and B
\* one or more decimal digits of value at most MAX_CATEGORY.
IsCategoryToken(t) ==
    /\ Len(t) >= 2
    /\ t[1] = "c"
    /\ \A i \in 2..Len(t) : t[i] \in Digits
    /\ DigitsValue(Tail(t), 0, MAX_CATEGORY) <= MAX_CATEGORY

CategoryTokenId(t) == DigitsValue(Tail(t), 0, MAX_CATEGORY)

IsListToken(t) ==
    LET Halves(h) == Len(h) = 2 /\ IsCategoryToken(h[1]) /\ IsCategoryToken(h[2])
    IN IF Contains(t, ".") THEN Halves(Split(t, ".")) ELSE IsCategoryToken(t)

ListTokenIds(t) ==
    LET Halves(h) == CategoryTokenId(h[1])..CategoryTokenId(h[2])
    IN IF Contains(t, ".") THEN Halves(Split(t, "."))
       ELSE {CategoryTokenId(t)}

IsCategoryList(tokens) == \A i \in 1..Len(tokens) : IsListToken(tokens[i])

CategoryListIds(tokens) ==
    UNION {ListTokenIds(tokens[i]) : i \in 1..Len(tokens)}

\* a well-formed range token whose ends are in descending order
IsDescending(t) ==
    /\ Contains(t, ".")
    /\ IsListToken(t)
    /\ ListTokenIds(t) = {}

\* the category ids of a successful parse by the parser op
ParsedIds(op, r) ==
    IF op = "SecurityLevel_from_str" THEN Unwrap(r).categories ELSE Unwrap(r)

\* parser op accepts exactly the lists of the grammar and yields their ids
ParsesExactlyTheGrammar(op) ==
    (/\ psOp = op
     /\ \A i \in 1..Len(psTokens) : ~IsDescending(psTokens[i]))
       => /\ psOut[1].ok = IsCategoryList(psTokens)
          /\ psOut[1].ok => ParsedIds(op, psOut[1]) = CategoryListIds(psTokens)

\* C20: CategorySet::from_str, parse_mcs_categories and
\* SecurityLevel::from_str each accept exactly the comma-separated lists of
\* tokens cN and cA.cB, yield the singles and every id of each range A..B,
\* and fail on a list with any other token.
C20_ListParsingIsExact ==
    /\ ParsesExactlyTheGrammar("CategorySet_from_str")
    /\ ParsesExactlyTheGrammar("parse_mcs_categories")
    /\ ParsesExactlyTheGrammar("SecurityLevel_from_str")

\* ------------------------------------------------------------------------
\* Properties of the level parsers
\* ------------------------------------------------------------------------
\* a sensitivity token: a lowercase 's', then one or more decimal digits
IsSensitivityShape(t) ==
    /\ Len(t) >= 2
    /\ t[1] = "s"
    /\ \A i \in 2..Len(t) : t[i] \in Digits

SensitivityTokenValue(t) == DigitsValue(Tail(t), 0, U16_MAX)

IsSensitivityToken(t) ==
    IsSensitivityShape(t) /\ SensitivityTokenValue(t) <= MAX_SENSITIVITY

\* the text of a level before its first ':'
SensitivityPart(lv) ==
    IF Contains(lv, ":") THEN SubSeq(lv, 1, IndexOf(lv, ":") - 1) ELSE lv

\* SensitivityLevel::from_str accepts exactly the sensitivity tokens,
\* answers OutOfRange above the ceiling, and answers an uppercase 'S' with
\* an error that no other bad prefix gets
SensitivityLevelIsStrict ==
    slOp = "SensitivityLevel_from_str"
       => /\ slOut.ok = IsSensitivityToken(slLow)
          /\ (IsSensitivityShape(slLow) /\ ~IsSensitivityToken(slLow))
                => slOut = Err("OutOfRange")
          /\ StartsWith(slLow, "S")
                => /\ ~slOut.ok
                   /\ slOut # SensitivityLevel_from_str(<<"x", "0">>)

\* SecurityLevel::from_str, alone or inside SecurityRange::from_str, accepts
\* only levels whose sensitivity is a sensitivity token, and answers an
\* uppercase 'S' with an error that no other bad prefix gets
LevelSensitivityIsStrict ==
    /\ slOp \in {"SecurityLevel_from_str", "SecurityRange_from_str"}
          => (slOut.ok =>
                /\ IsSensitivityToken(SensitivityPart(slLow))
                /\ slHigh # None
                      => IsSensitivityToken(SensitivityPart(slHigh[1])))
    /\ (slOp = "SecurityLevel_from_str" /\ StartsWith(slLow, "S"))
          => /\ ~slOut.ok
             /\ slOut # SecurityLevel_from_str(<<"x", "0">>)

\* C21: sensitivity parsing accepts a token exactly when it is a lowercase
\* 's' followed by decimal digits of value 0..15, a value above the ceiling
\* fails with OutOfRange, an uppercase 'S' gets an error of its own, and
\* the sensitivities inside SecurityRange::from_str obey the same rule.
C21_SensitivityParsingIsStrict ==
    SensitivityLevelIsStrict /\ LevelSensitivityIsStrict

\* C22: SecurityRange::from_str on a string without '-' yields low = high
\* = the parsed level; on "L-H" it yields low = parse(L) and high =
\* parse(H); it fails whenever a side fails to parse.
C22_RangeIsLowThenHigh ==
    slOp = "SecurityRange_from_str"
       => LET Both(low, high) ==
                /\ slOut.ok = (low.ok /\ high.ok)
                /\ slOut.ok => /\ Unwrap(slOut).low = Unwrap(low)
                               /\ Unwrap(slOut).high = Unwrap(high)
          IN Both(SecurityLevel_from_str(slLow),
                  SecurityLevel_from_str(IF slHigh = None THEN slLow
                                         ELSE slHigh[1]))

\* "s0-s2" was parsed: low.sensitivity = 0 and high.sensitivity = 2
C22_Witness ==
    /\ slOp = "SecurityRange_from_str"
    /\ slLow = <<"s", "0">>
    /\ slHigh = Some(<<"s", "2">>)
    /\ slOut.ok
    /\ Unwrap(slOut).low.sensitivity = 0
    /\ Unwrap(slOut).high.sensitivity = 2

\* the category ids a successful parse holds: those of a set, of a level,
\* or of both levels of a range
HeldIds(op, r) ==
    IF op = "SecurityRange_from_str"
    THEN Unwrap(r).low.categories \cup Unwrap(r).high.categories
    ELSE ParsedIds(op, r)

\* C23: Category::new(id) succeeds exactly when id <= 1023, the category
\* then carries id, and it fails with OutOfRange otherwise; no set a parser
\* returns, range expansion included, holds an id above 1023.
C23_NoCategoryAboveCeiling ==
    /\ psOp = "Category_new"
          => /\ psOut[1].ok = (psOut[2] <= 1023)
             /\ psOut[1].ok => Unwrap(psOut[1]) = psOut[2]
             /\ ~psOut[1].ok => psOut[1] = Err("OutOfRange")
    /\ psOp \in {"CategorySet_from_str", "parse_mcs_categories",
                 "SecurityLevel_from_str", "SecurityRange_from_str"}
          => \A k \in 1..2 :
                psOut[k].ok => HeldIds(psOp, psOut[k]) \subseteq 0..1023

\* Category::new(1024) was refused
C23_Witness ==
    /\ psOp = "Category_new"
    /\ psOut[2] = 1024
    /\ psOut[1] = Err("OutOfRange")

\* the loaded rules whose label is the marking, trimmed
RulesMarked(marking) ==
    {range \in DOMAIN translator.rules :
       translator.rules[range] = Trim(marking)}

\* C24: lookup_by_marking(m) returns one (kernel string, detail) pair for
\* exactly each loaded rule whose label is m trimmed, nothing for a marking
\* no rule carries, and each kernel string parses with
\* SecurityRange::from_str back to the range of its rule.
C24_ReverseLookupIsExact ==
    qOp = "lookup_by_marking"
       => LET Exact(marked, pairs) ==
                /\ Len(pairs) = Cardinality(marked)
                /\ \A range \in marked :
                      \E i \in 1..Len(pairs) :
                         /\ SecurityRange_from_str(pairs[i][1]) = Ok(range)
                         /\ pairs[i][2] = get_detail(translator, range)
                /\ \A i \in 1..Len(pairs) :
                      /\ SecurityRange_from_str(pairs[i][1]).ok
                      /\ Unwrap(SecurityRange_from_str(pairs[i][1])) \in marked
          IN Exact(RulesMarked(qOut[1]), qOut[2])

\* the marking "U" was asked of a table where a level without categories
\* and a low-high range carry it, and both came back
C24_Witness ==
    /\ qOp = "lookup_by_marking"
    /\ qOut[1] = <<"U">>
    /\ Len(qOut[2]) = 2
    /\ \E i \in 1..2 : qOut[2][i] = << <<"s", "0", ":">>, <<>> >>
    /\ \E i \in 1..2 :
          qOut[2][i] = << <<"s", "1", ":", "-", "s", "2", ":", "c", "0">>,
                          <<"x">> >>

\* ------------------------------------------------------------------------
\* Properties of the context parsers
\* ------------------------------------------------------------------------
\* the text after the n-th ':' of s
AfterColons(s, n) ==
    LET After(i) == SubSeq(s, i + 1, Len(s))
    IN After(CHOOSE i \in 1..Len(s) :
                /\ s[i] = ":"
                /\ Cardinality({j \in 1..i : s[j] = ":"}) = n)

\* the number of ':' in s
Colons(s) == Cardinality({i \in 1..Len(s) : s[i] = ":"})

SysContextSystemLow == Join(<<sys_u, sys_r, ssh_t, SystemLow>>, ":")

\* C25: a context accepted with a level carries as level().raw() exactly
\* the text after the third ':' of the input; the level "SystemLow" is
\* accepted by either path as sensitivity 0 with no categories and raw
\* level "SystemLow".
C25_RawLevelIsPreserved ==
    cpOp \in {"from_str", "parse_context_nom"}
       => /\ (cpOut.ok /\ Unwrap(cpOut).level # None)
                => MlsLevel_raw(Unwrap(cpOut).level[1]) = AfterColons(cpIn, 3)
          /\ cpIn = SysContextSystemLow
                => /\ cpOut.ok
                   /\ Unwrap(cpOut).level
                         = Some([sensitivity |-> 0, categories |-> {},
                                 raw_level |-> SystemLow])

\* Path A accepted "sys_u:sys_r:ssh_t:SystemLow"
C25_Witness ==
    /\ cpOp = "parse_context_nom"
    /\ cpIn = SysContextSystemLow
    /\ cpOut.ok
    /\ MlsLevel_raw(Unwrap(cpOut).level[1]) = SystemLow

\* the accepted context strings, each with the context it parses to
AcceptedContexts ==
    {<<s, Unwrap(SecurityContext_from_str(s))>> :
       s \in {x \in ContextStrings : SecurityContext_from_str(x).ok}}

\* C26: for every string SecurityContext::from_str accepts, Display of the
\* parsed context is the string itself; hence no other accepted string
\* parses to an equal context.
C26_DisplayRoundTrips ==
    cpOp = "display"
       => /\ cpOut[2] = cpIn
          /\ \A p \in AcceptedContexts : p[2] = cpOut[1] => p[1] = cpIn

\* "sys_u:sys_r:ssh_t:c0.c2,c5" was parsed and displayed
C26_Witness ==
    /\ cpOp = "display"
    /\ cpIn = Join(<<sys_u, sys_r, ssh_t,
                     <<"c", "0", ".", "c", "2", ",", "c", "5">> >>, ":")
    /\ cpOut[1].level # None
    /\ cpOut[2] = cpIn

\* a field is valid: 3 to 255 characters of [a-z0-9_], ending in '_' and
\* the suffix letter, with a non-empty stem before the suffix
IsValidField(f, letter) ==
    /\ Len(f) >= 3
    /\ Len(f) <= 255
    /\ \A i \in 1..Len(f) : f[i] \in LowerChars \cup Digits \cup {"_"}
    /\ f[Len(f) - 1] = "_"
    /\ f[Len(f)] = letter
    /\ Len(f) - 2 > 0

\* the i-th colon-separated field of s
FieldOf(s, i) ==
    LET Cut(from, to) == SubSeq(s, from + 1, to - 1)
        Colon(k) == IF k = 0 THEN 0
                    ELSE IF k > Colons(s) THEN Len(s) + 1
                    ELSE CHOOSE j \in 1..Len(s) :
                            /\ s[j] = ":"
                            /\ Cardinality({x \in 1..j : s[x] = ":"}) = k
    IN Cut(Colon(i - 1), Colon(i))

\* C27: SecurityContext::from_str answers InvalidFormat unless the string
\* has 3 or 4 colon-separated fields, otherwise InvalidUser unless the
\* first is a valid user, otherwise InvalidRole unless the second is a
\* valid role, otherwise InvalidType unless the third is a valid type, and
\* accepts otherwise.
C27_FailuresAreClassifiedInOrder ==
    cpOp = "from_str"
       => /\ cpOut.ok =
                (/\ Colons(cpIn) \in {2, 3}
                 /\ IsValidField(FieldOf(cpIn, 1), "u")
                 /\ IsValidField(FieldOf(cpIn, 2), "r")
                 /\ IsValidField(FieldOf(cpIn, 3), "t"))
          /\ ~cpOut.ok =>
                cpOut = Err(IF Colons(cpIn) \notin {2, 3} THEN "InvalidFormat"
                            ELSE IF ~IsValidField(FieldOf(cpIn, 1), "u")
                            THEN "InvalidUser"
                            ELSE IF ~IsValidField(FieldOf(cpIn, 2), "r")
                            THEN "InvalidRole"
                            ELSE "InvalidType")

\* a string whose user and role are both invalid was answered InvalidUser
C27_Witness ==
    /\ cpOp = "from_str"
    /\ cpIn = Join(<<<<"b", " ", "u">>, sys_u, ssh_t>>, ":")
    /\ cpOut = Err("InvalidUser")

\* C28: Path A and Path B agree on every input: both reject it, or both
\* accept it with equal contexts.
C28_PathsAreEquivalent ==
    cpOp = "both"
       => /\ cpOut[1].ok = cpOut[2].ok
          /\ cpOut[1].ok => Unwrap(cpOut[1]) = Unwrap(cpOut[2])

\* ------------------------------------------------------------------------
\* Properties of the two maps of the table
\* ------------------------------------------------------------------------
\* C29: after any load_from_reader the two maps of the table are mutually
\* inverse: get_bits(get_text(S)) = S for every CategorySet S with a label
\* and get_text(get_bits(L)) = L for every label L with a set.
C29_MapsAreMutuallyInverse ==
    ttLoads >= 1
       => /\ \A S \in DOMAIN table.to_text :
                get_bits(table, get_text(table, S)[1]) = Some(S)
          /\ \A L \in DOMAIN table.to_bits :
                get_text(table, get_bits(table, L)[1]) = Some(L)

\* ------------------------------------------------------------------------
\* Properties of the kernel-node parsers
\* ------------------------------------------------------------------------
BitNodes == {"enforce", "mls", "fips_enabled", "generic_bool"}

\* the wire format of a single bit: "0" or "1", optionally a newline
IsBitContent(data) ==
    data \in {<<"0">>, <<"1">>, <<"0", "\n">>, <<"1", "\n">>}

\* the wire format of a dual boolean: exactly two whitespace-separated
\* tokens, each "0" or "1"
IsDualContent(data) ==
    LET Two(parts) ==
          /\ Len(parts) = 2
          /\ parts[1] \in {<<"0">>, <<"1">>}
          /\ parts[2] \in {<<"0">>, <<"1">>}
    IN IsUtf8(data) /\ Two(SplitWhitespace(data, <<>>))

\* C30: the enforce, mls, fips_enabled and single-boolean parsers yield a
\* value only from "0" or "1", optionally followed by a newline, the
\* dual-boolean parser only from exactly two whitespace-separated tokens
\* that are each "0" or "1"; any other content gives InvalidData.
C30_ParsersAcceptOnlyTheWireFormat ==
    (srParsed /\ srBuf # None)
       => /\ srNode \in BitNodes
                => /\ srResult.ok = IsBitContent(srBuf[1])
                   /\ ~srResult.ok => srResult = Err("InvalidData")
          /\ srNode = "generic_dual_bool"
                => /\ srResult.ok = IsDualContent(srBuf[1])
                   /\ ~srResult.ok => srResult = Err("InvalidData")

====
